---- MODULE Spec2Model ----
(***************************************************************************)
(* A model of the APIBridge MCP server core: the OpenAPI parser            *)
(* (src/src/services/openapi-parser.js) that builds the endpoint registry  *)
(* and synthesizes CRUD workflows, and the tool manager                    *)
(* (src/src/tools/tool-manager.js) that runs workflows step by step        *)
(* against an HTTP dispatcher and a shared context store.                  *)
(*                                                                         *)
(* JavaScript strings are sequences of one-character strings, so that      *)
(* endsWith, includes, replace, toUpperCase and the regular expressions of *)
(* the source are computed, character by character, as the source          *)
(* computes them.  JSON values are tagged records; objects keep their keys *)
(* in insertion order, as Object.entries sees them.                        *)
(***************************************************************************)
EXTENDS Integers, Sequences, FiniteSets, TLC

(***************************************************************************)
(* Strings                                                                 *)
(***************************************************************************)
LowerLetters == <<"a","b","c","d","e","f","g","h","i","j","k","l","m",
                  "n","o","p","q","r","s","t","u","v","w","x","y","z">>

UpperLetters == <<"A","B","C","D","E","F","G","H","I","J","K","L","M",
                  "N","O","P","Q","R","S","T","U","V","W","X","Y","Z">>

Digits == {"0","1","2","3","4","5","6","7","8","9"}

Range(f) == {f[i] : i \in DOMAIN f}

LetterIndex(tbl, c) == CHOOSE i \in DOMAIN tbl : tbl[i] = c

\* String.prototype.toLowerCase / toUpperCase, one character
LowerChar(c) == IF c \in Range(UpperLetters) THEN LowerLetters[LetterIndex(UpperLetters, c)] ELSE c

UpperChar(c) == IF c \in Range(LowerLetters) THEN UpperLetters[LetterIndex(LowerLetters, c)] ELSE c

toLowerCase(s) == [i \in DOMAIN s |-> LowerChar(s[i])]

toUpperCase(s) == [i \in DOMAIN s |-> UpperChar(s[i])]

\* the regular expression class \w
IsWordChar(c) == c \in Range(LowerLetters) \cup Range(UpperLetters) \cup Digits \cup {"_"}

startsWithAt(s, t, i) == /\ i >= 1
                         /\ i + Len(t) - 1 <= Len(s)
                         /\ SubSeq(s, i, i + Len(t) - 1) = t

endsWith(s, t) == Len(t) <= Len(s) /\ SubSeq(s, Len(s) - Len(t) + 1, Len(s)) = t

includes(s, t) == \E i \in 1..(Len(s) + 1) : startsWithAt(s, t, i)

\* position of the first occurrence of t in s, 0 when there is none
indexOf(s, t) == IF includes(s, t)
                 THEN CHOOSE i \in 1..(Len(s) + 1) :
                        /\ startsWithAt(s, t, i)
                        /\ \A j \in 1..(i - 1) : ~startsWithAt(s, t, j)
                 ELSE 0

slice(s, from, to) == SubSeq(s, from, to)

\* String.prototype.replace(pattern, replacement) with a string pattern:
\* only the FIRST occurrence is replaced.  (Replacement values are drawn from
\* strings without "$", so no $-pattern of the replacement applies.)
replace(s, pattern, replacement) ==
  LET i == indexOf(s, pattern) IN
  IF i = 0 THEN s
  ELSE SubSeq(s, 1, i - 1) \o replacement \o SubSeq(s, i + Len(pattern), Len(s))

(***************************************************************************)
(* JSON values.  An object is an insertion-ordered list of entries.        *)
(***************************************************************************)
JStr(s) == [t |-> "str", s |-> s]

JNum(n) == [t |-> "num", n |-> n]

JBool(b) == [t |-> "bool", b |-> b]

JNull == [t |-> "null"]

Undefined == [t |-> "undef"]

JArr(a) == [t |-> "arr", a |-> a]

JObj(entries) == [t |-> "obj", o |-> entries]

Entry(k, v) == [k |-> k, v |-> v]

EmptyObj == JObj(<<>>)

IsStr(v) == v.t = "str"

IsArr(v) == v.t = "arr"

\* typeof v === 'object' && v !== null  (arrays included)
IsObjectLike(v) == v.t \in {"obj", "arr"}

\* JavaScript truthiness
Truthy(v) == CASE v.t = "str"  -> v.s # <<>>
               [] v.t = "num"  -> v.n # 0
               [] v.t = "bool" -> v.b
               [] v.t \in {"null", "undef"} -> FALSE
               [] OTHER -> TRUE

IndexKey(i) == <<(<<"0","1","2","3","4","5","6","7","8","9">>)[i]>>

\* Object.entries(v): own enumerable entries, arrays by index
Entries(v) == CASE v.t = "obj" -> v.o
                [] v.t = "arr" -> [i \in DOMAIN v.a |-> Entry(IndexKey(i), v.a[i])]
                [] OTHER -> <<>>

Keys(v) == {Entries(v)[i].k : i \in DOMAIN Entries(v)}

HasKey(v, k) == k \in Keys(v)

\* v[k]  (undefined when absent)
Get(v, k) == IF HasKey(v, k)
             THEN LET i == CHOOSE j \in DOMAIN Entries(v) : Entries(v)[j].k = k
                  IN Entries(v)[i].v
             ELSE Undefined

\* obj[k] = val : in place when the key exists, appended otherwise
Put(obj, k, val) ==
  IF HasKey(obj, k)
  THEN JObj([i \in DOMAIN obj.o |-> IF obj.o[i].k = k THEN Entry(k, val) ELSE obj.o[i]])
  ELSE JObj(Append(obj.o, Entry(k, val)))

\* delete obj[k]
Delete(obj, k) == JObj(SelectSeq(obj.o, LAMBDA e : e.k # k))

RECURSIVE AssignEntries(_, _)
AssignEntries(obj, es) ==
  IF es = <<>> THEN obj
  ELSE AssignEntries(Put(obj, Head(es).k, Head(es).v), Tail(es))

\* Object.assign(target, source), and the spread { ...target, ...source }
Assign(target, source) == AssignEntries(target, Entries(source))

\* String(v) as String.prototype.replace applies it to a replacement value
JsString(v) == CASE v.t = "str"   -> v.s
                 [] v.t = "undef" -> <<"u","n","d","e","f","i","n","e","d">>
                 [] v.t = "null"  -> <<"n","u","l","l">>
                 [] v.t = "bool"  -> IF v.b THEN <<"t","r","u","e">> ELSE <<"f","a","l","s","e">>
                 [] v.t = "num"   -> IndexKey(v.n + 1)
                 [] OTHER -> <<"[","o","b","j","e","c","t","]">>

(***************************************************************************)
(* Names and keys the source writes as literals                            *)
(***************************************************************************)
k_id == <<"i","d">>

k_data == <<"d","a","t","a">>

k_queryParams == <<"q","u","e","r","y","P","a","r","a","m","s">>

k_saveToContext == <<"s","a","v","e","T","o","C","o","n","t","e","x","t">>

k_fromContext == <<"f","r","o","m","C","o","n","t","e","x","t">>

k_dynamicForeignKeys == <<"_","d","y","n","a","m","i","c","F","o","r","e","i","g","n","K","e","y","s">>

k_dynamicAuthorId == <<"_","d","y","n","a","m","i","c","A","u","t","h","o","r","I","d">>

k_sourceProperty == <<"s","o","u","r","c","e","P","r","o","p","e","r","t","y">>

k_targetEndpoint == <<"t","a","r","g","e","t","E","n","d","p","o","i","n","t">>

k_marker == <<"m","a","r","k","e","r">>

(***************************************************************************)
(* The OpenAPI document (this.spec).  A path template is its list of       *)
(* segments, a segment {param} being marked; a path item maps each HTTP    *)
(* verb it defines to the operation's request body.  A $ref               *)
(* "#/components/schemas/N" is held as the name N.                         *)
(***************************************************************************)
Verbs == {"get", "post", "put", "patch", "delete"}

Seg(text) == [param |-> FALSE, text |-> text]

Param(text) == [param |-> TRUE, text |-> text]

\* pathTemplate.endsWith('}')
pathEndsWithParam(pathTemplate) == pathTemplate # <<>> /\ pathTemplate[Len(pathTemplate)].param

\* pathTemplate.includes('{')
pathHasParam(pathTemplate) == \E i \in DOMAIN pathTemplate : pathTemplate[i].param

\* a schema node; fields a schema does not carry are Undefined / empty
SchemaBase == [t |-> "schema", ref |-> Undefined, type |-> "", format |-> "",
               properties |-> Undefined, required |-> <<>>, items |-> Undefined,
               readOnly |-> FALSE, example |-> Undefined, enum |-> <<>>,
               minimum |-> Undefined]

SString(format) == [SchemaBase EXCEPT !.type = "string", !.format = format]

SInteger == [SchemaBase EXCEPT !.type = "integer"]

SBoolean == [SchemaBase EXCEPT !.type = "boolean"]

SArray(items) == [SchemaBase EXCEPT !.type = "array", !.items = items]

\* properties: ordered entries (name, schema); required: list of names
SObject(properties, required) ==
  [SchemaBase EXCEPT !.type = "object", !.properties = JObj(properties), !.required = required]

SRef(name) == [SchemaBase EXCEPT !.ref = JStr(name)]

\* a request body whose content['application/json'].schema is the given node
RequestBody(schema) == [t |-> "body", schema |-> schema]

(***************************************************************************)
(* OpenAPIParser: schema references and the endpoint registry              *)
(***************************************************************************)
\* the pointer followed once, nothing below it resolved
resolveRefOnly(doc, schemaOrRef) ==
  IF ~Truthy(schemaOrRef) THEN JNull
  ELSE IF Truthy(schemaOrRef.ref)
  THEN IF HasKey(doc.schemas, schemaOrRef.ref.s) THEN Get(doc.schemas, schemaOrRef.ref.s) ELSE JNull
  ELSE schemaOrRef

RECURSIVE resolveSchemaReference(_, _)
\* doc is this.spec: [hasPaths, paths, schemas], schemas an object of components.schemas
resolveSchemaReference(doc, schemaOrRef) ==
  IF ~Truthy(schemaOrRef) THEN JNull
  ELSE IF Truthy(schemaOrRef.ref)
  THEN IF HasKey(doc.schemas, schemaOrRef.ref.s)
       THEN resolveSchemaReference(doc, Get(doc.schemas, schemaOrRef.ref.s))
       ELSE JNull
  ELSE IF schemaOrRef.type = "object" /\ Truthy(schemaOrRef.properties)
  THEN [schemaOrRef EXCEPT !.properties =
          JObj([i \in DOMAIN schemaOrRef.properties.o |->
                  Entry(schemaOrRef.properties.o[i].k,
                        resolveSchemaReference(doc, schemaOrRef.properties.o[i].v))])]
  ELSE IF schemaOrRef.type = "array" /\ Truthy(schemaOrRef.items)
  THEN [schemaOrRef EXCEPT !.items = resolveSchemaReference(doc, schemaOrRef.items)]
  ELSE schemaOrRef

extractSchemaFromRequestBody(doc, requestBody) ==
  IF ~Truthy(requestBody) \/ ~Truthy(requestBody.schema) THEN JNull
  ELSE resolveSchemaReference(doc, requestBody.schema)

RECURSIVE JoinSegments(_)
\* the segment texts joined by "_" (each "/" of the template becomes "_")
JoinSegments(segs) ==
  IF segs = <<>> THEN <<>>
  ELSE IF Len(segs) = 1 THEN segs[1].text
  ELSE segs[1].text \o <<"_">> \o JoinSegments(Tail(segs))

\* the segments before the first {param}
BeforeFirstParam(pathTemplate) ==
  IF pathHasParam(pathTemplate)
  THEN SubSeq(pathTemplate, 1,
              (CHOOSE i \in DOMAIN pathTemplate :
                 pathTemplate[i].param /\ \A j \in 1..(i - 1) : ~pathTemplate[j].param) - 1)
  ELSE pathTemplate

extractEndpointName(pathTemplate) ==
  LET joined == JoinSegments(BeforeFirstParam(pathTemplate))
      clean  == [i \in DOMAIN joined |-> IF joined[i] = "-" THEN "_" ELSE joined[i]]
  IN IF clean = <<>> THEN <<"r","o","o","t">> ELSE clean

\* the verb in upper case, whatever the template
OperationKeyMerged(verb, pathTemplate) ==
  CASE verb = "get" -> "GET"
    [] verb = "post" -> "POST"
    [] verb = "put" -> "PUT"
    [] verb = "patch" -> "PATCH"
    [] verb = "delete" -> "DELETE"

\* the operation key of a verb on a path template
OperationKey(verb, pathTemplate) ==
  IF ~pathEndsWithParam(pathTemplate) /\ verb = "get" THEN "GET_COLLECTION"
  ELSE CASE verb = "get" -> "GET"
         [] verb = "post" -> "POST"
         [] verb = "put" -> "PUT"
         [] verb = "patch" -> "PATCH"
         [] verb = "delete" -> "DELETE"

\* the template processed last
LastTemplate(endpointPath, pathTemplate) == pathTemplate

\* lines 153-156: the collection path is preferred for the endpoint's path
CanonicalPath(endpointPath, pathTemplate) ==
  IF ~pathHasParam(pathTemplate) \/ pathHasParam(endpointPath)
  THEN pathTemplate ELSE endpointPath

\* one iteration of the loop of generateEndpoints over Object.entries(spec.paths)
AddPath(doc, endpoints, pathTemplate, pathItem) ==
  LET endpointName == extractEndpointName(pathTemplate)
      endpoint == IF endpointName \in DOMAIN endpoints THEN endpoints[endpointName]
                  ELSE [name |-> endpointName, path |-> pathTemplate, methods |-> {},
                        operations |-> <<>>, schema |-> JNull]
      newOps == [k \in {OperationKey(v, pathTemplate) : v \in DOMAIN pathItem} |->
                   LET v == CHOOSE w \in DOMAIN pathItem : OperationKey(w, pathTemplate) = k
                   IN [requestBody |-> pathItem[v].requestBody,
                       path |-> pathTemplate,
                       isCollection |-> ~pathEndsWithParam(pathTemplate)]]
      postOp == IF "post" \in DOMAIN pathItem THEN pathItem["post"]
                ELSE IF "put" \in DOMAIN pathItem THEN pathItem["put"]
                ELSE [requestBody |-> Undefined]
      schema == IF Truthy(postOp.requestBody) /\ ~Truthy(endpoint.schema)
                THEN extractSchemaFromRequestBody(doc, postOp.requestBody)
                ELSE endpoint.schema
      path == CanonicalPath(endpoint.path, pathTemplate)
  IN (endpointName :> [name |-> endpointName,
                       path |-> path,
                       methods |-> endpoint.methods \cup DOMAIN pathItem,
                       operations |-> newOps @@ endpoint.operations,
                       schema |-> schema])
     @@ endpoints

RECURSIVE AddPaths(_, _, _)
AddPaths(doc, endpoints, paths) ==
  IF paths = <<>> THEN endpoints
  ELSE AddPaths(doc, AddPath(doc, endpoints, Head(paths).template, Head(paths).item), Tail(paths))

\* generateEndpoints, for a document with a paths table
generateEndpoints(doc, endpoints) == AddPaths(doc, endpoints, doc.paths)

(***************************************************************************)
(* OpenAPIParser: foreign-key detection and sample data                    *)
(***************************************************************************)
\* a TypeError raised by reading a property of null
Thrown == [t |-> "throw"]

IsThrown(v) == v.t = "throw"

pluralize(word) ==
  IF endsWith(word, <<"y">>) THEN SubSeq(word, 1, Len(word) - 1) \o <<"i","e","s">>
  ELSE IF \/ endsWith(word, <<"s">>) \/ endsWith(word, <<"x">>) \/ endsWith(word, <<"z">>)
          \/ endsWith(word, <<"c","h">>) \/ endsWith(word, <<"s","h">>)
  THEN word \o <<"e","s">>
  ELSE word \o <<"s">>

\* resourceMappings: the words with a fixed target, as entries word -> endpoint
resourceMappings ==
  JObj(<< Entry(<<"a","u","t","h","o","r">>, JStr(<<"u","s","e","r","s">>)),
          Entry(<<"u","s","e","r">>, JStr(<<"u","s","e","r","s">>)),
          Entry(<<"o","w","n","e","r">>, JStr(<<"u","s","e","r","s">>)),
          Entry(<<"c","r","e","a","t","o","r">>, JStr(<<"u","s","e","r","s">>)),
          Entry(<<"c","a","t","e","g","o","r","y">>, JStr(<<"c","a","t","e","g","o","r","i","e","s">>)),
          Entry(<<"t","a","g">>, JStr(<<"t","a","g","s">>)) >>)

\* the capture group of each fkPattern, in order, <<>> marking "no match":
\* /^(.+)id$/i, /^(.+)_id$/i, /^id_(.+)$/i
fkCaptures(propName) ==
  LET lower == toLowerCase(propName)
      n == Len(propName)
  IN << IF n >= 3 /\ endsWith(lower, <<"i","d">>) THEN SubSeq(propName, 1, n - 2) ELSE <<>>,
        IF n >= 4 /\ endsWith(lower, <<"_","i","d">>) THEN SubSeq(propName, 1, n - 3) ELSE <<>>,
        IF n >= 4 /\ startsWithAt(lower, <<"i","d","_">>, 1) THEN SubSeq(propName, 4, n) ELSE <<>> >>

\* the target endpoint a matched pattern names
fkTarget(capture) ==
  LET targetResource == toLowerCase(capture)
  IN IF HasKey(resourceMappings, targetResource)
     THEN Get(resourceMappings, targetResource).s
     ELSE pluralize(targetResource)

\* no relationship detected, whatever the property
detectNothing(endpoints, propName, propSchema, currentEndpoint) == JNull

\* the target taken without looking it up in the registry
detectUnregistered(endpoints, propName, propSchema, currentEndpoint) ==
  LET caps == fkCaptures(propName)
      hits == {i \in DOMAIN caps : caps[i] # <<>> /\ propSchema.format = "uuid"}
  IN IF hits = {} THEN JNull
     ELSE LET i == CHOOSE h \in hits : \A g \in hits : h <= g
          IN JObj(<< Entry(k_sourceProperty, JStr(propName)),
                     Entry(k_targetEndpoint, JStr(fkTarget(caps[i]))) >>)

\* detectForeignKeyRelationship: the first pattern whose target endpoint is
\* in the registry decides; JNull when there is none
detectForeignKeyRelationship(endpoints, propName, propSchema, currentEndpoint) ==
  LET caps == fkCaptures(propName)
      hits == {i \in DOMAIN caps : /\ caps[i] # <<>>
                                   /\ propSchema.format = "uuid"
                                   /\ fkTarget(caps[i]) \in DOMAIN endpoints}
  IN IF hits = {} THEN JNull
     ELSE LET i == CHOOSE h \in hits : \A g \in hits : h <= g
          IN JObj(<< Entry(k_sourceProperty, JStr(propName)),
                     Entry(k_targetEndpoint, JStr(fkTarget(caps[i]))),
                     Entry(<<"t","a","r","g","e","t","R","e","s","o","u","r","c","e">>, JStr(toLowerCase(caps[i]))) >>)

\* `{{DYNAMIC_${targetEndpoint.toUpperCase()}_ID}}`
DynamicMarker(targetEndpoint) == <<"{","{","D","Y","N","A","M","I","C","_">> \o toUpperCase(targetEndpoint) \o <<"_","I","D","}","}">>

LiteralUuid == <<"1","2","3","e","4","5","6","7","-","e","8","9","b","-","1","2","d","3","-","a","4","5","6","-","4","2","6","6","1","4","1","7","4","0","0","0">>

\* the string branch of generateSampleValueForProp
SampleString(endpoints, propName, propSchema, endpointName) ==
  LET format == propSchema.format
      lowerPropName == toLowerCase(propName)
      has(t) == includes(lowerPropName, t)
  IN IF format = "email" \/ has(<<"e","m","a","i","l">>) THEN <<"w","o","r","k","f","l","o","w",".","t","e","s","t","@","e","x","a","m","p","l","e",".","c","o","m">>
     ELSE IF format = "date" THEN <<"2","0","2","5","-","0","1","-","0","1">>
     ELSE IF format = "date-time" THEN <<"2","0","2","5","-","0","1","-","0","1","T","1","0",":","0","0",":","0","0","Z">>
     ELSE IF format = "uuid"
     THEN LET foreignKeyInfo == detectForeignKeyRelationship(endpoints, propName, propSchema, endpointName)
          IN IF Truthy(foreignKeyInfo)
             THEN DynamicMarker(Get(foreignKeyInfo, k_targetEndpoint).s)
             ELSE LiteralUuid
     ELSE IF format = "password" \/ has(<<"p","a","s","s","w","o","r","d">>) THEN <<"W","o","r","k","f","l","o","w","T","e","s","t","P","a","s","s","1","2","3","!">>
     ELSE IF format = "uri" \/ has(<<"u","r","l">>) THEN <<"h","t","t","p","s",":","/","/","e","x","a","m","p","l","e",".","c","o","m","/","t","e","s","t">>
     ELSE IF has(<<"f","i","r","s","t","n","a","m","e">>) \/ has(<<"f","i","r","s","t","_","n","a","m","e">>) THEN <<"W","o","r","k","f","l","o","w">>
     ELSE IF has(<<"l","a","s","t","n","a","m","e">>) \/ has(<<"l","a","s","t","_","n","a","m","e">>) THEN <<"T","e","s","t","U","s","e","r">>
     ELSE IF has(<<"f","u","l","l","n","a","m","e">>) \/ has(<<"f","u","l","l","_","n","a","m","e">>) THEN <<"W","o","r","k","f","l","o","w"," ","T","e","s","t","U","s","e","r">>
     ELSE IF has(<<"u","s","e","r","n","a","m","e">>) THEN <<"w","o","r","k","f","l","o","w","_","t","e","s","t","e","r">>
     ELSE IF has(<<"t","i","t","l","e">>) THEN <<"S","a","m","p","l","e"," ","W","o","r","k","f","l","o","w"," ","T","i","t","l","e">>
     ELSE IF has(<<"d","e","s","c","r","i","p","t","i","o","n">>) THEN <<"T","h","i","s"," ","i","s"," ","a"," ","s","a","m","p","l","e"," ","d","e","s","c","r","i","p","t","i","o","n"," ","g","e","n","e","r","a","t","e","d"," ","f","o","r"," ","t","e","s","t","i","n","g",".">>
     ELSE IF has(<<"c","o","n","t","e","n","t">>) THEN <<"T","h","i","s"," ","i","s"," ","s","a","m","p","l","e"," ","c","o","n","t","e","n","t"," ","f","o","r"," ","a"," ","t","e","s","t"," ","e","n","t","r","y",".">>
     ELSE IF has(<<"p","h","o","n","e">>) THEN <<"1","2","3","-","4","5","6","-","7","8","9","0">>
     ELSE IF has(<<"a","d","d","r","e","s","s">>) THEN <<"1","2","3"," ","T","e","s","t"," ","S","t",","," ","S","a","m","p","l","e"," ","C","i","t","y">>
     ELSE IF has(<<"c","i","t","y">>) THEN <<"S","a","m","p","l","e"," ","C","i","t","y">>
     ELSE IF has(<<"c","o","u","n","t","r","y">>) THEN <<"U","S","A">>
     ELSE IF has(<<"z","i","p">>) \/ has(<<"p","o","s","t","a","l">>) THEN <<"1","2","3","4","5">>
     ELSE IF has(<<"n","a","m","e">>) THEN <<"S","a","m","p","l","e"," ">> \o propName
     ELSE <<"t","e","s","t","_">> \o lowerPropName

RECURSIVE generateSampleData(_, _, _)
RECURSIVE generateSampleValueForProp(_, _, _, _)
RECURSIVE SampleRequired(_, _, _, _, _)
RECURSIVE SampleOthers(_, _, _, _)

\* sampleData[propName] = v; a TypeError raised on the way is carried on
PutSample(sampleData, propName, v) ==
  IF IsThrown(sampleData) \/ IsThrown(v) THEN Thrown ELSE Put(sampleData, propName, v)

\* the loop over schema.required
SampleRequired(endpoints, properties, required, endpointName, sampleData) ==
  IF IsThrown(sampleData) THEN Thrown
  ELSE IF required = <<>> THEN sampleData
  ELSE IF ~Truthy(Get(properties, Head(required))) \/ Get(properties, Head(required)).readOnly
  THEN SampleRequired(endpoints, properties, Tail(required), endpointName, sampleData)
  ELSE SampleRequired(endpoints, properties, Tail(required), endpointName,
         PutSample(sampleData, Head(required),
                   generateSampleValueForProp(endpoints, Head(required),
                                              Get(properties, Head(required)), endpointName)))

\* the loop over Object.entries(properties)
SampleOthers(endpoints, entries, endpointName, sampleData) ==
  IF IsThrown(sampleData) THEN Thrown
  ELSE IF entries = <<>> THEN sampleData
  ELSE IF HasKey(sampleData, Head(entries).k)
  THEN SampleOthers(endpoints, Tail(entries), endpointName, sampleData)
  ELSE IF Head(entries).v.t = "null" THEN Thrown      \* propSchema.readOnly of null
  ELSE IF Head(entries).v.readOnly
  THEN SampleOthers(endpoints, Tail(entries), endpointName, sampleData)
  ELSE SampleOthers(endpoints, Tail(entries), endpointName,
         PutSample(sampleData, Head(entries).k,
                   generateSampleValueForProp(endpoints, Head(entries).k,
                                              Head(entries).v, endpointName)))

generateSampleData(endpoints, schema, endpointName) ==
  IF ~Truthy(schema) \/ schema.type # "object" \/ ~Truthy(schema.properties) THEN EmptyObj
  ELSE SampleOthers(endpoints, schema.properties.o, endpointName,
         SampleRequired(endpoints, schema.properties, schema.required, endpointName, EmptyObj))

\* [ itemSample ]
ArrayOf(v) == IF IsThrown(v) THEN Thrown ELSE JArr(<<v>>)

generateSampleValueForProp(endpoints, propName, propSchema, endpointName) ==
  IF propSchema.t = "null" THEN Thrown                   \* propSchema.example of null
  ELSE IF propSchema.example # Undefined THEN propSchema.example
  ELSE IF propSchema.enum # <<>> THEN propSchema.enum[1]
  ELSE CASE propSchema.type = "string" ->
              JStr(SampleString(endpoints, propName, propSchema, endpointName))
         [] propSchema.type \in {"integer", "number"} ->
              IF propSchema.minimum # Undefined THEN propSchema.minimum ELSE JNum(10)
         [] propSchema.type = "boolean" -> JBool(TRUE)
         [] propSchema.type = "array" ->
              IF Truthy(propSchema.items)
              THEN ArrayOf(generateSampleValueForProp(endpoints, propName \o <<"_","i","t","e","m">>,
                                                      propSchema.items, endpointName))
              ELSE JArr(<<>>)
         [] propSchema.type = "object" -> generateSampleData(endpoints, propSchema, endpointName)
         [] OTHER -> JNull

(***************************************************************************)
(* OpenAPIParser: dependency extraction and workflow synthesis             *)
(***************************************************************************)
MarkerOpen == <<"{","{","D","Y","N","A","M","I","C","_">>

MarkerClose == <<"_","I","D","}","}">>

\* first position at or after i that holds no \w character (Len(s)+1 at the end)
WordRunEnd(s, i) ==
  IF \E q \in i..Len(s) : ~IsWordChar(s[q])
  THEN CHOOSE q \in i..Len(s) : ~IsWordChar(s[q]) /\ \A r \in i..(q - 1) : IsWordChar(s[r])
  ELSE Len(s) + 1

\* /\{\{DYNAMIC_(\w+)_ID\}\}/ matches s at position p.  The greedy \w+ runs to
\* the first non-word character, which must be the "}}" that "_ID" precedes.
MarkerMatchesAt(s, p) ==
  /\ startsWithAt(s, MarkerOpen, p)
  /\ LET q == WordRunEnd(s, p + Len(MarkerOpen))
     IN /\ q - 3 > p + Len(MarkerOpen)
        /\ startsWithAt(s, MarkerClose, q - 3)

MarkerMatchEnd(s, p) == WordRunEnd(s, p + Len(MarkerOpen)) + 1

RECURSIVE ScanMarkers(_, _)
\* dataStr.match(/.../g) within one string: non-overlapping, left to right
ScanMarkers(s, i) ==
  IF \E p \in i..Len(s) : MarkerMatchesAt(s, p)
  THEN LET p == CHOOSE x \in i..Len(s) :
                  MarkerMatchesAt(s, x) /\ \A y \in i..(x - 1) : ~MarkerMatchesAt(s, y)
       IN <<SubSeq(s, p, MarkerMatchEnd(s, p))>> \o ScanMarkers(s, MarkerMatchEnd(s, p) + 1)
  ELSE <<>>

\* match[1].toLowerCase() of a matched marker
MarkerTarget(marker) ==
  toLowerCase(SubSeq(marker, Len(MarkerOpen) + 1, Len(marker) - Len(MarkerClose)))

RECURSIVE StringifyMatches(_)
RECURSIVE StringifyEntryMatches(_, _)
\* the matches in JSON.stringify(v), in the order of the serialization; a match
\* cannot span the quotes and punctuation between two strings
StringifyMatches(v) ==
  CASE v.t = "str" -> ScanMarkers(v.s, 1)
    [] v.t \in {"obj", "arr"} -> StringifyEntryMatches(Entries(v), v.t = "obj")
    [] OTHER -> <<>>

StringifyEntryMatches(es, withKeys) ==
  IF es = <<>> THEN <<>>
  ELSE (IF Head(es).v.t = "undef" THEN <<>>
        ELSE (IF withKeys THEN ScanMarkers(Head(es).k, 1) ELSE <<>>) \o StringifyMatches(Head(es).v))
       \o StringifyEntryMatches(Tail(es), withKeys)

RECURSIVE findPropertyWithMarker(_, _)
RECURSIVE FindInEntries(_, _)
\* the key of the first value, depth first, that IS the marker; JNull when none
findPropertyWithMarker(obj, marker) == FindInEntries(Entries(obj), marker)

FindInEntries(es, marker) ==
  IF es = <<>> THEN JNull
  ELSE LET key == Head(es).k
           value == Head(es).v
       IN IF IsStr(value) /\ value.s = marker THEN JStr(key)
          ELSE IF IsObjectLike(value) /\ Truthy(findPropertyWithMarker(value, marker))
          THEN findPropertyWithMarker(value, marker)
          ELSE FindInEntries(Tail(es), marker)

RECURSIVE DependenciesOf(_, _)
DependenciesOf(sampleData, matches) ==
  IF matches = <<>> THEN <<>>
  ELSE LET match == Head(matches)
           propertyInfo == findPropertyWithMarker(sampleData, match)
       IN (IF Truthy(propertyInfo)
           THEN << JObj(<< Entry(k_sourceProperty, propertyInfo),
                           Entry(k_targetEndpoint, JStr(MarkerTarget(match))),
                           Entry(k_marker, JStr(match)) >>) >>
           ELSE <<>>)
          \o DependenciesOf(sampleData, Tail(matches))

\* analyzeForeignKeyDependencies: one dependency per match, duplicates kept
analyzeForeignKeyDependencies(sampleData) ==
  DependenciesOf(sampleData, StringifyMatches(sampleData))

\* { data: sampleData, ...sampleData }
DataAndFields(sampleData) ==
  IF IsThrown(sampleData) THEN Thrown
  ELSE Assign(JObj(<<Entry(k_data, sampleData)>>), sampleData)

\* lines 531-539: the sample of a request body's schema, {} without a schema
SampleOfSchema(endpoints, schema, endpointName) ==
  IF ~Truthy(schema) THEN EmptyObj
  ELSE DataAndFields(generateSampleData(endpoints, schema, endpointName))

\* generateWorkflowSampleData; method "" stands for null
generateWorkflowSampleData(doc, endpoints, endpoint, method, endpointName) ==
  IF method = "" \/ method \notin DOMAIN endpoint.operations THEN EmptyObj
  ELSE IF ~Truthy(endpoint.operations[method].requestBody) THEN EmptyObj
  ELSE SampleOfSchema(endpoints,
                      extractSchemaFromRequestBody(doc, endpoint.operations[method].requestBody),
                      endpointName)

getSingularName(name) ==
  IF endsWith(name, <<"s">>) /\ ~endsWith(name, <<"s","s">>) THEN SubSeq(name, 1, Len(name) - 1)
  ELSE name

Step(action, args) == [action |-> action, args |-> args]

\* no pre-step pushed for any dependency
noFetchSteps(deps, addedContextKeys) == <<>>

\* foreignKeyDeps filtered to the first dependency of each context key, as steps
RECURSIVE FetchSteps(_, _)
FetchSteps(deps, addedContextKeys) ==
  IF deps = <<>> THEN <<>>
  ELSE LET target == Get(Head(deps), k_targetEndpoint).s
           contextKey == <<"e","x","i","s","t","i","n","g","_">> \o target
       IN IF contextKey \in addedContextKeys THEN FetchSteps(Tail(deps), addedContextKeys)
          ELSE <<Step(<<"l","i","s","t","_">> \o target, JObj(<<Entry(k_saveToContext, JStr(contextKey))>>))>>
               \o FetchSteps(Tail(deps), addedContextKeys \cup {contextKey})

\* the dependencies without the filter on the marker: duplicates kept
unfilteredDeps(deps) == deps

\* arr.filter((dep, index) => arr.findIndex(d => d.marker === dep.marker) === index)
uniqueDeps(deps) ==
  LET keep == {i \in DOMAIN deps :
                 \A j \in 1..(i - 1) : Get(deps[j], k_marker) # Get(deps[i], k_marker)}
      F[i \in 0..Len(deps)] ==
        IF i = 0 THEN <<>> ELSE IF i \in keep THEN Append(F[i - 1], deps[i]) ELSE F[i - 1]
  IN F[Len(deps)]

hasOperation(endpoint, key) == key \in DOMAIN endpoint.operations

\* the condition without hasGet
isEligibleWithoutGet(endpoint) ==
  /\ hasOperation(endpoint, "GET_COLLECTION")
  /\ hasOperation(endpoint, "POST")
  /\ hasOperation(endpoint, "DELETE")

\* an endpoint with list, get, create and delete gets a workflow
isEligible(endpoint) ==
  /\ hasOperation(endpoint, "GET_COLLECTION")
  /\ hasOperation(endpoint, "GET")
  /\ hasOperation(endpoint, "POST")
  /\ hasOperation(endpoint, "DELETE")

\* hasUpdate ? (endpoint.operations.PUT ? 'PUT' : 'PATCH') : null
UpdateMethod(endpoint) ==
  IF hasOperation(endpoint, "PUT") THEN "PUT"
  ELSE IF hasOperation(endpoint, "PATCH") THEN "PATCH" ELSE ""

\* createArgs: { saveToContext: contextVar, ...createData } and the deduplicated
\* _dynamicForeignKeys when there is a dependency
CreateArgs(contextVar, createData, foreignKeyDeps) ==
  IF Len(foreignKeyDeps) > 0
  THEN Put(Assign(JObj(<<Entry(k_saveToContext, JStr(contextVar))>>), createData),
           k_dynamicForeignKeys, JArr(uniqueDeps(foreignKeyDeps)))
  ELSE Assign(JObj(<<Entry(k_saveToContext, JStr(contextVar))>>), createData)

\* lines 385-454: the steps pushed, given the samples and the dependencies
StepsFrom(endpointName, singularName, contextVar, hasUpdate, createData, updateData, foreignKeyDeps) ==
  FetchSteps(foreignKeyDeps, {})
  \o << Step(<<"c","r","e","a","t","e","_">> \o singularName,
             CreateArgs(contextVar, createData, foreignKeyDeps)),
        Step(<<"l","i","s","t","_">> \o endpointName, Undefined),
        Step(<<"g","e","t","_">> \o singularName, JObj(<<Entry(k_fromContext, JStr(contextVar))>>)) >>
  \o (IF hasUpdate /\ Len(Entries(updateData)) > 1
      THEN <<Step(<<"u","p","d","a","t","e","_">> \o singularName,
                  Assign(JObj(<<Entry(k_fromContext, JStr(contextVar))>>), updateData))>>
      ELSE <<>>)
  \o <<Step(<<"d","e","l","e","t","e","_">> \o singularName,
            JObj(<<Entry(k_fromContext, JStr(contextVar))>>))>>

\* the steps generateWorkflows builds for one eligible endpoint from its samples
WorkflowSteps(endpointName, endpoint, createData, updateData) ==
  StepsFrom(endpointName,
            getSingularName(endpointName),
            <<"c","r","e","a","t","e","d","_">> \o getSingularName(endpointName),
            UpdateMethod(endpoint) # "",
            createData, updateData,
            analyzeForeignKeyDependencies(createData))

WorkflowName(endpointName) == endpointName \o <<"_","c","r","u","d","_","w","o","r","k","f","l","o","w">>

RECURSIVE GenerateWorkflowsFrom(_, _, _, _)
RECURSIVE SetWorkflow(_, _, _, _, _, _)
\* the loop of generateWorkflows over this.endpoints, in Map order
GenerateWorkflowsFrom(doc, endpoints, order, workflows) ==
  IF order = <<>> THEN [threw |-> FALSE, workflows |-> workflows]
  ELSE IF ~isEligible(endpoints[Head(order)])
  THEN GenerateWorkflowsFrom(doc, endpoints, Tail(order), workflows)
  ELSE SetWorkflow(doc, endpoints, order, workflows,
         generateWorkflowSampleData(doc, endpoints, endpoints[Head(order)], "POST", Head(order)),
         generateWorkflowSampleData(doc, endpoints, endpoints[Head(order)],
                                    UpdateMethod(endpoints[Head(order)]), Head(order)))

\* the loop body for the eligible endpoint Head(order), its samples generated:
\* a TypeError of the sample generation leaves the workflows set so far, else
\* this.workflows.set(...) and the loop goes on
SetWorkflow(doc, endpoints, order, workflows, createData, updateData) ==
  IF IsThrown(createData) \/ IsThrown(updateData)
  THEN [threw |-> TRUE, workflows |-> workflows]
  ELSE GenerateWorkflowsFrom(doc, endpoints, Tail(order),
         (WorkflowName(Head(order)) :>
            [name |-> WorkflowName(Head(order)),
             steps |-> WorkflowSteps(Head(order), endpoints[Head(order)], createData, updateData)])
         @@ workflows)

generateWorkflows(doc, endpoints, order, workflows) ==
  GenerateWorkflowsFrom(doc, endpoints, order, workflows)

RECURSIVE EndpointOrder(_, _)
\* the insertion order of the endpoints Map: names as first set
EndpointOrder(order, paths) ==
  IF paths = <<>> THEN order
  ELSE LET n == extractEndpointName(Head(paths).template)
       IN EndpointOrder(IF n \in Range(order) THEN order ELSE Append(order, n), Tail(paths))



(***************************************************************************)
(* State                                                                   *)
(***************************************************************************)
VARIABLES
  spec,           \* OpenAPIParser.spec: the document last loaded, NoDocument before
  endpoints,      \* OpenAPIParser.endpoints: endpoint name -> endpoint
  endpointOrder,  \* insertion order of the endpoints Map
  workflows,      \* OpenAPIParser.workflows: workflow name -> workflow
  parseOutcome    \* "none", "returned" or "threw": how parseFromFile ended

parserVars == <<spec, endpoints, endpointOrder, workflows, parseOutcome>>

NoDocument == [hasPaths |-> FALSE, paths |-> <<>>, schemas |-> EmptyObj]

EmptyMap == [k \in {} |-> Undefined]

\* new OpenAPIParser()
ParserInit ==
  /\ spec = NoDocument
  /\ endpoints = EmptyMap
  /\ endpointOrder = <<>>
  /\ workflows = EmptyMap
  /\ parseOutcome = "none"

\* lines 38-45: the registry, its order and the workflows are stored; a
\* TypeError of generateWorkflows leaves what was set before it
StoreParsed(eps, ord, gen) ==
  /\ endpoints' = eps
  /\ endpointOrder' = ord
  /\ workflows' = gen.workflows
  /\ parseOutcome' = IF gen.threw THEN "threw" ELSE "returned"

\* generateEndpoints done, generateWorkflows runs on the registry it left
ParseWith(doc, eps, ord) == StoreParsed(eps, ord, generateWorkflows(doc, eps, ord, workflows))

\* lines 29-45 for a file that reads and parses as the document doc: this.spec
\* is set, generateEndpoints and generateWorkflows run on the parser's maps
ParseDocument(doc) ==
  /\ spec' = doc
  /\ IF ~doc.hasPaths
     THEN /\ parseOutcome' = "threw"
          /\ UNCHANGED <<endpoints, endpointOrder, workflows>>
     ELSE ParseWith(doc, generateEndpoints(doc, endpoints), EndpointOrder(endpointOrder, doc.paths))

\* parseFromFile, the first call on a parser instance
ParseFromFile(doc) ==
  /\ parseOutcome = "none"
  /\ ParseDocument(doc)

(***************************************************************************)
(* Documents the parser is given                                           *)
(***************************************************************************)
s_users == <<"u","s","e","r","s">>

s_posts == <<"p","o","s","t","s">>

p_title == <<"t","i","t","l","e">>

p_authorId == <<"a","u","t","h","o","r","I","d">>

\* a path item defining the given verbs, the writing ones with the given body
PathItem(verbs, schema) ==
  [v \in verbs |-> [requestBody |-> IF v \in {"post", "put", "patch"} /\ schema # Undefined
                                     THEN RequestBody(schema) ELSE Undefined]]

UserSchema == SObject(<< Entry(<<"n","a","m","e">>, SString("")), Entry(<<"e","m","a","i","l">>, SString("email")) >>,
                      << <<"n","a","m","e">> >>)

\* the request schemas tried for posts
PostSchemas ==
  { Undefined,
    SObject(<< Entry(p_title, SString("")) >>, << p_title >>),
    SObject(<< Entry(p_title, SString("")), Entry(p_authorId, SString("uuid")) >>,
            << p_title, p_authorId >>),
    SObject(<< Entry(p_authorId, SString("uuid")),
               Entry(<<"p","o","s","t","_","i","d">>, SString("uuid")),
               Entry(<<"m","e","t","a">>, SObject(<< Entry(<<"o","w","n","e","r","I","d">>, SString("uuid")) >>, <<>>)),
               Entry(<<"r","e","v","i","e","w","e","r","_","i","d","s">>, SArray(SString("uuid"))) >>, <<>>) }

\* the paths of one resource: a collection template and an item template, each
\* present when it defines a verb
ResourcePaths(name, collVerbs, itemVerbs, schema) ==
  (IF collVerbs = {} THEN <<>>
   ELSE <<[template |-> <<Seg(name)>>, item |-> PathItem(collVerbs, schema)]>>)
  \o
  (IF itemVerbs = {} THEN <<>>
   ELSE <<[template |-> <<Seg(name), Param(k_id)>>, item |-> PathItem(itemVerbs, schema)]>>)

Document(paths) == [hasPaths |-> TRUE, paths |-> paths, schemas |-> EmptyObj]

UserCollVerbs == {{}, {"get"}, {"get", "post"}}

UserItemVerbs == {{}, {"get"}, {"get", "delete"}, {"get", "put", "delete"}}

SynthDocuments ==
  { Document(ResourcePaths(s_users, uc, ui, UserSchema) \o ResourcePaths(s_posts, pc, pi, ps)) :
      uc \in UserCollVerbs, ui \in UserItemVerbs,
      pc \in SUBSET {"get", "post"}, pi \in SUBSET {"get", "put", "patch", "delete"},
      ps \in PostSchemas }
  \cup {NoDocument}

(***************************************************************************)
(* ToolManager: the tool catalogue                                         *)
(***************************************************************************)
generateToolName(method, endpointName) ==
  LET singularName == IF endsWith(endpointName, <<"s">>)
                      THEN SubSeq(endpointName, 1, Len(endpointName) - 1) ELSE endpointName
  IN CASE method = "GET" -> <<"g","e","t","_">> \o singularName
       [] method = "GET_COLLECTION" -> <<"l","i","s","t","_">> \o endpointName
       [] method = "POST" -> <<"c","r","e","a","t","e","_">> \o singularName
       [] method = "PUT" -> <<"u","p","d","a","t","e","_">> \o singularName
       [] method = "PATCH" -> <<"p","a","t","c","h","_">> \o singularName
       [] method = "DELETE" -> <<"d","e","l","e","t","e","_">> \o singularName

\* the tools generateEndpointTools sets for one endpoint: name -> tool
EndpointToolsOf(eps, endpointName) ==
  LET ops == eps[endpointName].operations
  IN [n \in {generateToolName(k, endpointName) : k \in DOMAIN ops} |->
        LET k == CHOOSE m \in DOMAIN ops : generateToolName(m, endpointName) = n
        IN [endpoint |-> endpointName, method |-> k, path |-> ops[k].path]]

RECURSIVE GenerateToolsFrom(_, _, _)
\* generateTools over Object.entries(config.endpoints): a name set again by a
\* later endpoint replaces the earlier entry
GenerateToolsFrom(eps, order, tools) ==
  IF order = <<>> THEN tools
  ELSE GenerateToolsFrom(eps, Tail(order), EndpointToolsOf(eps, Head(order)) @@ tools)

generateTools(eps, order, tools) == GenerateToolsFrom(eps, order, tools)

(***************************************************************************)
(* ToolManager: context resolution                                         *)
(***************************************************************************)
\* the replacement applied to strings only, objects and arrays left as they are
replaceInStringOnly(obj, marker, value) ==
  IF obj.t = "str" THEN JStr(replace(obj.s, marker, JsString(value))) ELSE obj

RECURSIVE replaceDynamicMarker(_, _, _)
replaceDynamicMarker(obj, marker, value) ==
  CASE obj.t = "str" -> JStr(replace(obj.s, marker, JsString(value)))
    [] obj.t = "arr" -> JArr([i \in DOMAIN obj.a |-> replaceDynamicMarker(obj.a[i], marker, value)])
    [] obj.t = "obj" -> JObj([i \in DOMAIN obj.o |->
                               Entry(obj.o[i].k, replaceDynamicMarker(obj.o[i].v, marker, value))])
    [] OTHER -> obj

\* the loop over Object.entries(resolved) that rewrites every value but skipKey's
ReplaceInArgs(resolved, skipKey, marker, value) ==
  JObj([i \in DOMAIN resolved.o |->
          IF resolved.o[i].k # skipKey
          THEN Entry(resolved.o[i].k, replaceDynamicMarker(resolved.o[i].v, marker, value))
          ELSE resolved.o[i]])

\* testContext.has / testContext.get
ctxHas(testContext, key) == key \in DOMAIN testContext

\* lines 580-595: fromContext
ResolveFromContext(args, testContext) ==
  LET fromContext == Get(args, k_fromContext)
  IN IF Truthy(fromContext) /\ IsStr(fromContext) /\ ctxHas(testContext, fromContext.s)
     THEN LET contextData == testContext[fromContext.s]
              merged == IF IsObjectLike(contextData) THEN Assign(args, contextData) ELSE args
              overlaid == Assign(merged, args)
          IN IF IsObjectLike(contextData) /\ Truthy(Get(contextData, k_id)) /\ ~Truthy(Get(args, k_id))
             THEN Put(overlaid, k_id, Get(contextData, k_id))
             ELSE overlaid
     ELSE args

\* testContext.get(contextKey), Undefined for a key the store lacks
TargetData(testContext, contextKey) ==
  IF ctxHas(testContext, contextKey) THEN testContext[contextKey] ELSE Undefined

\* targetData[0].id: a TypeError when the first entry is null
FirstId(targetData) ==
  IF targetData.a[1].t \in {"null", "undef"} THEN Thrown ELSE Get(targetData.a[1], k_id)

\* the replacement applied whatever the store holds for the target
ApplyForeignKeyUnchecked(resolved, fkDep, targetData) ==
  IF IsThrown(resolved) THEN Thrown
  ELSE ReplaceInArgs(resolved, k_dynamicForeignKeys, JsString(Get(fkDep, k_marker)),
                     IF IsArr(targetData) /\ Len(targetData.a) > 0 /\ ~IsThrown(FirstId(targetData))
                     THEN FirstId(targetData) ELSE Undefined)

\* lines 602-632: one dependency, the store's data for its target given
ApplyForeignKey(resolved, fkDep, targetData) ==
  IF IsThrown(resolved) THEN Thrown
  ELSE IF IsArr(targetData) /\ Len(targetData.a) > 0
  THEN IF IsThrown(FirstId(targetData)) THEN Thrown
       ELSE ReplaceInArgs(resolved, k_dynamicForeignKeys, JsString(Get(fkDep, k_marker)),
                          FirstId(targetData))
  ELSE resolved

RECURSIVE ApplyForeignKeys(_, _, _)
\* lines 599-633: the loop over args._dynamicForeignKeys
ApplyForeignKeys(resolved, deps, testContext) ==
  IF deps = <<>> THEN resolved
  ELSE ApplyForeignKeys(
         ApplyForeignKey(resolved, Head(deps),
                         TargetData(testContext,
                                    <<"e","x","i","s","t","i","n","g","_">>
                                      \o JsString(Get(Head(deps), k_targetEndpoint)))),
         Tail(deps), testContext)

\* delete resolved[k], a TypeError raised before it carried on
DeleteFlag(resolved, k) == IF IsThrown(resolved) THEN Thrown ELSE Delete(resolved, k)

\* lines 598-637: _dynamicForeignKeys
ResolveForeignKeys(args, resolved, testContext) ==
  IF IsArr(Get(args, k_dynamicForeignKeys))
  THEN DeleteFlag(ApplyForeignKeys(resolved, Get(args, k_dynamicForeignKeys).a, testContext),
                  k_dynamicForeignKeys)
  ELSE resolved

LegacyMarker == <<"{","{","E","X","I","S","T","I","N","G","_","U","S","E","R","_","I","D","}","}">>

\* lines 642-671: the legacy replacement, existing_users present in the store
ApplyLegacy(resolved, users) ==
  IF IsThrown(resolved) THEN Thrown
  ELSE IF IsArr(users) /\ Len(users.a) > 0
  THEN IF IsThrown(FirstId(users)) THEN Thrown
       ELSE Delete(ReplaceInArgs(resolved, k_dynamicAuthorId, LegacyMarker, FirstId(users)),
                   k_dynamicAuthorId)
  ELSE resolved

\* lines 640-672: the legacy _dynamicAuthorId flag
ResolveLegacy(args, resolved, testContext) ==
  IF /\ Truthy(Get(args, k_dynamicAuthorId))
     /\ ctxHas(testContext, <<"e","x","i","s","t","i","n","g","_","u","s","e","r","s">>)
  THEN ApplyLegacy(resolved, testContext[<<"e","x","i","s","t","i","n","g","_","u","s","e","r","s">>])
  ELSE resolved

resolveContextReferences(args, testContext) ==
  ResolveLegacy(args,
                ResolveForeignKeys(args, ResolveFromContext(args, testContext), testContext),
                testContext)

(***************************************************************************)
(* ToolManager: one endpoint tool call, up to the HTTP request             *)
(***************************************************************************)
NoRequest == [sent |-> FALSE]

\* the keys handleEndpointTool keeps out of the request body
ReservedKeys == {k_id, k_queryParams, k_saveToContext, k_fromContext, k_data}

\* lines 534-550: the body of a POST, PUT or PATCH
RequestData(resolvedArgs) ==
  LET raw == Get(resolvedArgs, k_data)
      base == IF IsObjectLike(raw) THEN JObj(Entries(raw)) ELSE EmptyObj
      fields == JObj(SelectSeq(resolvedArgs.o,
                               LAMBDA e : e.k \notin ReservedKeys /\ e.v # Undefined))
  IN Assign(base, fields)

\* lines 518-556 and 561: the request sent for the resolved arguments, or
\* NoRequest when the call throws before sending
RequestFor(tool, httpMethod, resolvedArgs) ==
  IF IsThrown(resolvedArgs) THEN NoRequest            \* TypeError in the resolution
  ELSE IF pathHasParam(tool.path) /\ ~Truthy(Get(resolvedArgs, k_id))
  THEN NoRequest                                      \* ID parameter is required
  ELSE IF httpMethod = "POST" /\ Entries(RequestData(resolvedArgs)) = <<>>
  THEN NoRequest                                      \* No data provided
  ELSE [sent |-> TRUE,
        method |-> httpMethod,
        path |-> tool.path,
        id |-> IF pathHasParam(tool.path) THEN Get(resolvedArgs, k_id) ELSE Undefined,
        data |-> IF httpMethod \in {"POST", "PUT", "PATCH"}
                 THEN RequestData(resolvedArgs) ELSE JNull]

\* handleEndpointTool up to httpClient.request
BuildRequest(tool, args, testContext) ==
  RequestFor(tool, IF tool.method = "GET_COLLECTION" THEN "GET" ELSE tool.method,
             resolveContextReferences(args, testContext))

\* handleToolCall for a workflow step: Unknown tool, or the endpoint tool's request
StepRequest(tools, step, testContext) ==
  IF step.action \notin DOMAIN tools THEN NoRequest
  ELSE BuildRequest(tools[step.action],
                    IF Truthy(step.args) THEN step.args ELSE EmptyObj,
                    testContext)

(***************************************************************************)
(* Server state: the tool catalogue, the context store and workflow runs   *)
(***************************************************************************)
VARIABLES
  endpointTools,  \* ToolManager.endpointTools: tool name -> tool
  testContext,    \* the server's context store (a Map): key -> response payload
  runs,           \* each run_workflow call: its arguments, loop position and report
  inFlight,       \* the HTTP requests sent and not yet answered: [run, step]
  lastCall        \* the last endpoint tool called by name: arguments, resolution, request

serverVars == <<endpointTools, testContext, runs, inFlight, lastCall>>

vars == <<spec, endpoints, endpointOrder, workflows, parseOutcome,
          endpointTools, testContext, runs, inFlight, lastCall>>

MaxRuns == 1

Runs == 1..MaxRuns

NoCall == [called |-> FALSE]

IdleRun == [status |-> "idle", workflow |-> <<>>, stopOnError |-> Undefined, i |-> 0, log |-> <<>>]

\* the steps of the workflow a run executes
StepsOf(run) == workflows[run.workflow].steps

\* the ListTools request: generateTools fills endpointTools
ListTools ==
  /\ endpointTools' = generateTools(endpoints, endpointOrder, endpointTools)
  /\ UNCHANGED <<testContext, runs, inFlight, lastCall>>
  /\ UNCHANGED parserVars

\* the loop going on after a failure whatever stopOnError is
AfterStepContinuing(run, failed) ==
  IF run.i + 1 >= Len(StepsOf(run)) THEN [run EXCEPT !.status = "finished", !.i = run.i + 1]
  ELSE [run EXCEPT !.status = "running", !.i = run.i + 1]

\* the loop of handleRunWorkflow after step i ended: stop on a failure when
\* args.stopOnError is truthy, else go on; return after the last step
AfterStep(run, failed) ==
  IF failed /\ Truthy(run.stopOnError) THEN [run EXCEPT !.status = "finished"]
  ELSE IF run.i + 1 >= Len(StepsOf(run)) THEN [run EXCEPT !.status = "finished", !.i = run.i + 1]
  ELSE [run EXCEPT !.status = "running", !.i = run.i + 1]

\* what a run records of a step: its number, the request its tool call built,
\* the store the call resolved its arguments against, how it ended, and the
\* payload of the response once there is one
LogEntry(run, req, outcome) ==
  [step |-> run.i + 1, request |-> req, store |-> testContext, outcome |-> outcome,
   response |-> Undefined]

\* the call dispatched and the loop moving on without awaiting it
DispatchedNotAwaited(run, req) ==
  AfterStepContinuing([run EXCEPT !.log = Append(@, LogEntry(run, req, "pending"))], FALSE)

\* await this.handleToolCall(...): the request is sent and the loop suspended
Dispatched(run, req) ==
  [run EXCEPT !.status = "awaiting", !.log = Append(@, LogEntry(run, req, "pending"))]

\* the tool call threw before sending: the step is reported failed
FailedBeforeSend(run, req) ==
  AfterStep([run EXCEPT !.log = Append(@, LogEntry(run, req, "failed"))], TRUE)

\* a run_workflow call that takes a name without a workflow for a workflow
\* without steps
CallRunWorkflowLenient(r, name, stopOnError) ==
  /\ runs[r].status = "idle"
  /\ runs' = [runs EXCEPT ![r] =
       [@ EXCEPT !.status = IF name \notin DOMAIN workflows THEN "finished"
                            ELSE IF Len(workflows[name].steps) = 0 THEN "finished" ELSE "running",
                 !.workflow = name, !.stopOnError = stopOnError]]
  /\ UNCHANGED <<endpointTools, testContext, inFlight, lastCall>>
  /\ UNCHANGED parserVars

\* a run_workflow call arrives: Unknown workflow, or the loop starts at i = 0
CallRunWorkflow(r, name, stopOnError) ==
  /\ runs[r].status = "idle"
  /\ runs' = [runs EXCEPT ![r] =
       IF name \notin DOMAIN workflows THEN [@ EXCEPT !.status = "rejected", !.workflow = name]
       ELSE [@ EXCEPT !.status = IF Len(workflows[name].steps) = 0 THEN "finished" ELSE "running",
                      !.workflow = name, !.stopOnError = stopOnError]]
  /\ UNCHANGED <<endpointTools, testContext, inFlight, lastCall>>
  /\ UNCHANGED parserVars

\* the loop body up to the await, the step's request built: it is sent, or
\* the call threw before sending
StartWith(r, req) ==
  /\ runs' = [runs EXCEPT ![r] = IF req.sent THEN Dispatched(runs[r], req)
                                 ELSE FailedBeforeSend(runs[r], req)]
  /\ inFlight' = IF req.sent THEN inFlight \cup {[run |-> r, step |-> runs[r].i + 1]}
                 ELSE inFlight

\* the loop body up to the await: the step's tool call resolves its arguments
\* against the store and sends its request, or throws before sending
StepStart(r) ==
  /\ runs[r].status = "running"
  /\ StartWith(r, StepRequest(endpointTools, StepsOf(runs[r])[runs[r].i + 1], testContext))
  /\ UNCHANGED <<endpointTools, testContext, lastCall>>
  /\ UNCHANGED parserVars

\* the step a run awaits, and its arguments
AwaitedStep(run) == StepsOf(run)[run.i + 1]

SetOutcome(run, outcome) == [run EXCEPT !.log[Len(run.log)].outcome = outcome]

\* const response = await this.httpClient.request(...): the step completed
Completed(run, data) ==
  [run EXCEPT !.log[Len(run.log)].outcome = "completed", !.log[Len(run.log)].response = data]

\* lines 564-566: the payload saved under args.saveToContext
SaveToContext(store, args, data) ==
  IF Truthy(Get(args, k_saveToContext)) /\ Truthy(data)
  THEN (Get(args, k_saveToContext).s :> data) @@ store
  ELSE store

\* the arguments of the step a run awaits: step.args || {}
AwaitedArgs(run) == IF Truthy(AwaitedStep(run).args) THEN AwaitedStep(run).args ELSE EmptyObj

\* the decimal numeral of run r
RunTag(r) == IndexKey(r + 1)

\* the answer saved in a store of the run's own: the key carries the run
StepReturnIsolated(r, data) ==
  /\ runs[r].status = "awaiting"
  /\ [run |-> r, step |-> runs[r].i + 1] \in inFlight
  /\ testContext' =
       IF Truthy(Get(AwaitedArgs(runs[r]), k_saveToContext)) /\ Truthy(data)
       THEN ((RunTag(r) \o Get(AwaitedArgs(runs[r]), k_saveToContext).s) :> data) @@ testContext
       ELSE testContext
  /\ runs' = [runs EXCEPT ![r] = AfterStep(Completed(runs[r], data), FALSE)]
  /\ inFlight' = inFlight \ {[run |-> r, step |-> runs[r].i + 1]}
  /\ UNCHANGED <<endpointTools, lastCall>>
  /\ UNCHANGED parserVars

\* the awaited request is answered with payload data: saveToContext, step completed
StepReturn(r, data) ==
  /\ runs[r].status = "awaiting"
  /\ [run |-> r, step |-> runs[r].i + 1] \in inFlight
  /\ testContext' = SaveToContext(testContext, AwaitedArgs(runs[r]), data)
  /\ runs' = [runs EXCEPT ![r] = AfterStep(Completed(runs[r], data), FALSE)]
  /\ inFlight' = inFlight \ {[run |-> r, step |-> runs[r].i + 1]}
  /\ UNCHANGED <<endpointTools, lastCall>>
  /\ UNCHANGED parserVars

\* the awaited request fails: httpClient.request throws, the step failed
StepThrow(r) ==
  /\ runs[r].status = "awaiting"
  /\ [run |-> r, step |-> runs[r].i + 1] \in inFlight
  /\ runs' = [runs EXCEPT ![r] = AfterStep(SetOutcome(runs[r], "failed"), TRUE)]
  /\ inFlight' = inFlight \ {[run |-> r, step |-> runs[r].i + 1]}
  /\ UNCHANGED <<endpointTools, testContext, lastCall>>
  /\ UNCHANGED parserVars

(***************************************************************************)
(* The documents the server is started with, and what the backend answers  *)
(***************************************************************************)
PostSchemaAuthor ==
  SObject(<< Entry(p_title, SString("")), Entry(p_authorId, SString("uuid")) >>,
          << p_title, p_authorId >>)

PostSchemaNested ==
  SObject(<< Entry(p_authorId, SString("uuid")),
             Entry(<<"p","o","s","t","_","i","d">>, SString("uuid")),
             Entry(<<"m","e","t","a">>, SObject(<< Entry(<<"o","w","n","e","r","I","d">>, SString("uuid")) >>, <<>>)) >>, <<>>)

UsersFull == ResourcePaths(s_users, {"get", "post"}, {"get", "put", "delete"}, UserSchema)

\* users with list/get/post/put/delete, posts with list/get/post/delete and authorId: uuid
ScenarioDocument ==
  Document(UsersFull \o ResourcePaths(s_posts, {"get", "post"}, {"get", "delete"}, PostSchemaAuthor))

\* posts that also update, with foreign keys to users and to posts itself
NestedDocument ==
  Document(UsersFull \o
           ResourcePaths(s_posts, {"get", "post"}, {"get", "put", "delete"}, PostSchemaNested))

ServerDocuments == {ScenarioDocument, NestedDocument}

id_u1 == JStr(<<"u","1">>)

id_p1 == JStr(<<"p","1">>)

\* response payloads (response.data) by HTTP method of the request
ListPayloads ==
  { JArr(<<>>),
    JArr(<< JNull >>),
    JArr(<< JObj(<<Entry(k_id, id_u1)>>) >>),
    JArr(<< JObj(<<Entry(<<"n","a","m","e">>, JStr(<<"n">>))>>), JObj(<<Entry(k_id, id_u1)>>) >>),
    JObj(<< Entry(<<"i","t","e","m","s">>, JArr(<< JObj(<<Entry(k_id, id_u1)>>) >>)) >>) }

Payloads(request) ==
  IF request.method = "GET" /\ ~pathHasParam(request.path) THEN ListPayloads
  ELSE IF request.method = "POST"
  THEN { JObj(<<Entry(k_id, id_p1), Entry(p_title, JStr(<<"t">>))>>), JStr(<<>>) }
  ELSE { JNull }

WorkflowNames == {WorkflowName(s_posts), WorkflowName(s_users), WorkflowName(<<"n","o","t","h","i","n","g">>)}

StopOnErrorArgs == {JBool(TRUE), JBool(FALSE), Undefined}

(***************************************************************************)
(* Spec: the server, from construction                                     *)
(***************************************************************************)
ServerInit ==
  /\ endpointTools = EmptyMap
  /\ testContext = EmptyMap
  /\ runs = [r \in Runs |-> IdleRun]
  /\ inFlight = {}
  /\ lastCall = NoCall

Init == ParserInit /\ ServerInit

\* APIBridgeMCPServer.initialize: the OpenAPI file is parsed, its endpoints and
\* workflows become the configuration
Initialize ==
  /\ \E doc \in ServerDocuments : ParseFromFile(doc)
  /\ UNCHANGED serverVars

Started == parseOutcome = "returned"

\* requests are served once initialize has returned; the backend answers or
\* fails a request that is in flight
Next ==
  \/ Initialize
  \/ Started /\ ListTools
  \/ \E r \in Runs, name \in WorkflowNames, stopOnError \in StopOnErrorArgs :
       Started /\ CallRunWorkflow(r, name, stopOnError)
  \/ \E r \in Runs : StepStart(r)
  \/ \E r \in Runs :
       /\ runs[r].status = "awaiting"
       /\ \E data \in Payloads(runs[r].log[Len(runs[r].log)].request) : StepReturn(r, data)
  \/ \E r \in Runs : StepThrow(r)

Spec == Init /\ [][Next]_vars











(***************************************************************************)
(* SynthSpec: one parser instance given any of the documents once          *)
(***************************************************************************)
SynthParse ==
  /\ \E doc \in SynthDocuments : ParseFromFile(doc)
  /\ UNCHANGED serverVars

SynthSpec == Init /\ [][SynthParse]_vars

(***************************************************************************)
(* Workflow synthesis                                                      *)
(***************************************************************************)
FourOperations == {"GET_COLLECTION", "GET", "POST", "DELETE"}

\* C1: once a document is parsed, an endpoint of the registry has a workflow
\* named <endpoint>_crud_workflow if and only if it defines list, get-by-id,
\* create and delete, and no other workflow exists.
C1_WorkflowIffFourOperations ==
  parseOutcome = "returned" =>
    /\ \A n \in DOMAIN endpoints :
         (WorkflowName(n) \in DOMAIN workflows)
           <=> (FourOperations \subseteq DOMAIN endpoints[n].operations)
    /\ DOMAIN workflows \subseteq {WorkflowName(n) : n \in DOMAIN endpoints}

\* one endpoint with create, list and delete but no get has no workflow while
\* another endpoint has one
C1_Witness ==
  /\ parseOutcome = "returned"
  /\ \E n \in DOMAIN endpoints :
       /\ {"GET_COLLECTION", "POST", "DELETE"} \subseteq DOMAIN endpoints[n].operations
       /\ "GET" \notin DOMAIN endpoints[n].operations
       /\ WorkflowName(n) \notin DOMAIN workflows
  /\ \E m \in DOMAIN endpoints : WorkflowName(m) \in DOMAIN workflows

ActionsOf(steps) == [i \in DOMAIN steps |-> steps[i].action]

\* C2: users with list/get/post/put/delete and posts with list/get/post/delete
\* and a create field authorId of format uuid yield posts_crud_workflow with
\* exactly the steps list_users (saving existing_users), create_post (saving
\* created_post, one _dynamicForeignKeys entry authorId -> users), list_posts,
\* get_post and delete_post (both fromContext created_post), and no update.
C2_ScenarioWorkflow ==
  (spec = ScenarioDocument /\ parseOutcome = "returned") =>
    /\ WorkflowName(s_posts) \in DOMAIN workflows
    /\ LET steps == workflows[WorkflowName(s_posts)].steps
           fks == Get(steps[2].args, k_dynamicForeignKeys)
       IN /\ ActionsOf(steps) = << <<"l","i","s","t","_","u","s","e","r","s">>, <<"c","r","e","a","t","e","_","p","o","s","t">>, <<"l","i","s","t","_","p","o","s","t","s">>,
                                   <<"g","e","t","_","p","o","s","t">>, <<"d","e","l","e","t","e","_","p","o","s","t">> >>
          /\ steps[1].args = JObj(<<Entry(k_saveToContext, JStr(<<"e","x","i","s","t","i","n","g","_","u","s","e","r","s">>))>>)
          /\ Get(steps[2].args, k_saveToContext) = JStr(<<"c","r","e","a","t","e","d","_","p","o","s","t">>)
          /\ IsArr(fks)
          /\ Len(fks.a) = 1
          /\ Get(fks.a[1], k_sourceProperty) = JStr(p_authorId)
          /\ Get(fks.a[1], k_targetEndpoint) = JStr(s_users)
          /\ steps[3].args = Undefined
          /\ steps[4].args = JObj(<<Entry(k_fromContext, JStr(<<"c","r","e","a","t","e","d","_","p","o","s","t">>))>>)
          /\ steps[5].args = JObj(<<Entry(k_fromContext, JStr(<<"c","r","e","a","t","e","d","_","p","o","s","t">>))>>)

\* the scenario's document has been parsed and its posts workflow stored
C2_Witness ==
  /\ spec = ScenarioDocument
  /\ parseOutcome = "returned"
  /\ WorkflowName(s_posts) \in DOMAIN workflows
  /\ Len(workflows[WorkflowName(s_posts)].steps) = 5



\* args.saveToContext / args.fromContext of a step, Undefined without args
SavedKey(step) == Get(step.args, k_saveToContext)

SourceKey(step) == Get(step.args, k_fromContext)

HasPrefix(s, prefix) == startsWithAt(s, prefix, 1)

\* a dependency-fetch step: list_<target> saving to existing_<target>
IsFetchStep(step) ==
  /\ HasPrefix(step.action, <<"l","i","s","t","_">>)
  /\ IsStr(SavedKey(step))
  /\ HasPrefix(SavedKey(step).s, <<"e","x","i","s","t","i","n","g","_">>)

\* the number of dependency-fetch steps a workflow starts with
FetchCount(steps) == Cardinality({i \in DOMAIN steps : \A j \in 1..i : IsFetchStep(steps[j])})

\* fetch steps, create, list, get, optionally update, delete
InFixedOrder(steps) ==
  LET k == FetchCount(steps)
  IN /\ Len(steps) \in {k + 4, k + 5}
     /\ HasPrefix(steps[k + 1].action, <<"c","r","e","a","t","e","_">>)
     /\ HasPrefix(steps[k + 2].action, <<"l","i","s","t","_">>) /\ ~IsFetchStep(steps[k + 2])
     /\ HasPrefix(steps[k + 3].action, <<"g","e","t","_">>)
     /\ Len(steps) = k + 5 => HasPrefix(steps[k + 4].action, <<"u","p","d","a","t","e","_">>)
     /\ HasPrefix(steps[Len(steps)].action, <<"d","e","l","e","t","e","_">>)

\* every fromContext K follows a saveToContext K
SourcesSaved(steps) ==
  \A i \in DOMAIN steps :
    Truthy(SourceKey(steps[i])) => \E j \in 1..(i - 1) : SavedKey(steps[j]) = SourceKey(steps[i])

\* every _dynamicForeignKeys entry of a step follows a step saving existing_<target>
ForeignKeysFetched(steps) ==
  \A i \in DOMAIN steps :
    LET fks == Get(steps[i].args, k_dynamicForeignKeys)
    IN IsArr(fks) =>
         \A e \in DOMAIN fks.a :
           \E j \in 1..(i - 1) :
             SavedKey(steps[j]) = JStr(<<"e","x","i","s","t","i","n","g","_">> \o Get(fks.a[e], k_targetEndpoint).s)

\* C3: every synthesized workflow has its steps in the order fetch steps,
\* create, list, get, optional update, delete last; each step with fromContext
\* K follows a step with saveToContext K; each _dynamicForeignKeys entry for
\* target T follows a step saving to existing_T.
C3_FixedStepOrder ==
  \A w \in DOMAIN workflows :
    /\ InFixedOrder(workflows[w].steps)
    /\ SourcesSaved(workflows[w].steps)
    /\ ForeignKeysFetched(workflows[w].steps)

\* a workflow with two fetch steps, an update step and two foreign keys
C3_Witness ==
  \E w \in DOMAIN workflows :
    /\ FetchCount(workflows[w].steps) = 2
    /\ Len(workflows[w].steps) = 7
    /\ Len(Get(workflows[w].steps[3].args, k_dynamicForeignKeys).a) >= 2



(***************************************************************************)
(* Workflow runs                                                           *)
(***************************************************************************)
\* the steps a run has dispatched are 1, 2, ... in workflow order, each once
DispatchedInOrder(run) == \A k \in DOMAIN run.log : run.log[k].step = k

\* a failed step is the last one dispatched, and the run has returned with
\* the report up to that step
StoppedAtFailure(run) ==
  \A k \in DOMAIN run.log :
    run.log[k].outcome = "failed" => (k = Len(run.log) /\ run.status = "finished")

\* C4: when a step fails, with stopOnError true no later step of the run is
\* dispatched and the run returns its partial report; with stopOnError false
\* every remaining step is still attempted exactly once, in order.
C4_StopOnErrorDecides ==
  \A r \in Runs :
    /\ DispatchedInOrder(runs[r])
    /\ runs[r].stopOnError = JBool(TRUE) => StoppedAtFailure(runs[r])
    /\ (runs[r].stopOnError = JBool(FALSE) /\ runs[r].status = "finished")
         => Len(runs[r].log) = Len(StepsOf(runs[r]))

\* a run with stopOnError false that finished all its steps after a failure
\* before the last one
C4_Witness ==
  \E r \in Runs :
    /\ runs[r].stopOnError = JBool(FALSE)
    /\ runs[r].status = "finished"
    /\ Len(runs[r].log) = Len(StepsOf(runs[r]))
    /\ \E k \in 1..(Len(runs[r].log) - 1) : runs[r].log[k].outcome = "failed"

\* C5: a run requested without stopOnError stops at its first failed step, as
\* one requested with stopOnError true does.
C5_DefaultStopsAtFailure ==
  \A r \in Runs :
    (runs[r].status \notin {"idle", "rejected"} /\ runs[r].stopOnError = Undefined)
      => StoppedAtFailure(runs[r])

\* C6: a run has at most one tool call in flight, dispatches its steps in
\* workflow order, and dispatches a step only when every earlier one has
\* returned or thrown.
C6_StrictlySequential ==
  \A r \in Runs :
    /\ Cardinality({f \in inFlight : f.run = r}) <= 1
    /\ DispatchedInOrder(runs[r])
    /\ \A k \in 1..(Len(runs[r].log) - 1) : runs[r].log[k].outcome # "pending"
    /\ \A f \in inFlight : f.run = r =>
         /\ f.step = Len(runs[r].log)
         /\ runs[r].log[f.step].outcome = "pending"

\* the third step of a run is in flight after the first two returned or threw
C6_Witness ==
  \E r \in Runs :
    /\ Len(runs[r].log) = 3
    /\ [run |-> r, step |-> 3] \in inFlight
    /\ runs[r].log[1].outcome = "completed"
    /\ runs[r].log[2].outcome \in {"completed", "failed"}



(***************************************************************************)
(* ResolveSpec: resolveContextReferences applied to calls and stores       *)
(***************************************************************************)
k_created == <<"c","r","e","a","t","e","d","_","p","o","s","t">>

k_existingUsers == <<"e","x","i","s","t","i","n","g","_","u","s","e","r","s">>

k_existingPosts == <<"e","x","i","s","t","i","n","g","_","p","o","s","t","s">>

m_users == DynamicMarker(s_users)

m_posts == DynamicMarker(s_posts)

\* what the store may hold under created_post, Undefined for an absent key
CreatedValues ==
  { Undefined,
    JObj(<< Entry(k_id, id_p1), Entry(p_title, JStr(<<"t">>)) >>),
    JObj(<< Entry(p_title, JStr(<<"t">>)) >>),
    JStr(<<"o","k">>) }

\* what the store may hold under existing_users
ExistingUsersValues ==
  ListPayloads \cup { Undefined, JArr(<< JNull >>), JStr(<<"n","o","n","e">>) }

ExistingPostsValues == { Undefined, JArr(<< JObj(<<Entry(k_id, id_p1)>>) >>) }

\* the store with the given values, absent keys left out
StoreOf(created, users, posts) ==
  [k \in {kv[1] : kv \in {x \in { <<k_created, created>>, <<k_existingUsers, users>>,
                                   <<k_existingPosts, posts>> } : x[2] # Undefined}} |->
     IF k = k_created THEN created ELSE IF k = k_existingUsers THEN users ELSE posts]

Stores ==
  { StoreOf(c, u, p) : c \in CreatedValues, u \in ExistingUsersValues, p \in ExistingPostsValues }

Dep(sourceProperty, targetEndpoint, marker) ==
  JObj(<< Entry(k_sourceProperty, JStr(sourceProperty)),
          Entry(k_targetEndpoint, JStr(targetEndpoint)),
          Entry(k_marker, JStr(marker)) >>)

\* calls that take their arguments from the store
FromContextCalls ==
  { JObj(<< Entry(k_fromContext, JStr(k_created)) >>),
    JObj(<< Entry(k_fromContext, JStr(k_created)), Entry(p_title, JStr(<<"m","i","n","e">>)) >>),
    JObj(<< Entry(k_fromContext, JStr(k_created)), Entry(k_id, JStr(<<"x">>)) >>),
    JObj(<< Entry(k_fromContext, JStr(k_created)), Entry(k_id, JStr(<<>>)) >>),
    JObj(<< Entry(k_fromContext, JStr(<<"m","i","s","s","i","n","g">>)), Entry(p_title, JStr(<<"m","i","n","e">>)) >>) }

MaxOccurrences == 2

RECURSIVE Repeated(_, _)
\* the text n times, separated by commas
Repeated(text, n) == IF n <= 1 THEN text ELSE text \o <<",">> \o Repeated(text, n - 1)

\* the string values a create call may carry where a marker is expected: the
\* marker once or several times, and the marker after other text
MarkerStrings ==
  { Repeated(m_users, n) : n \in 1..MaxOccurrences } \cup { <<"i","d",":">> \o m_users }

\* calls with foreign keys to resolve: the synthesized shape { data, ...fields },
\* a list of markers, and two dependencies
ForeignKeyCalls ==
  { JObj(<< Entry(k_data, JObj(<< Entry(p_title, JStr(<<"t">>)), Entry(p_authorId, JStr(m)) >>)),
            Entry(p_title, JStr(<<"t">>)),
            Entry(p_authorId, JStr(m)),
            Entry(k_dynamicForeignKeys, JArr(<< Dep(p_authorId, s_users, m_users) >>)) >>) :
      m \in MarkerStrings }
  \cup
  { JObj(<< Entry(<<"r","e","v","i","e","w","e","r","s">>, JArr(<< JStr(m_users), JStr(<<"r","2">>) >>)),
            Entry(k_dynamicForeignKeys, JArr(<< Dep(<<"r","e","v","i","e","w","e","r","s">>, s_users, m_users) >>)) >>),
    JObj(<< Entry(p_authorId, JStr(m_users)),
            Entry(<<"p","o","s","t","_","i","d">>, JStr(m_posts)),
            Entry(k_dynamicForeignKeys, JArr(<< Dep(p_authorId, s_users, m_users),
                                                Dep(<<"p","o","s","t","_","i","d">>, s_posts, m_posts) >>)) >>) }

Calls == FromContextCalls \cup ForeignKeyCalls

CreateTool == [endpoint |-> s_posts, method |-> "POST", path |-> <<Seg(s_posts)>>]

DeleteTool == [endpoint |-> s_posts, method |-> "DELETE", path |-> <<Seg(s_posts), Param(k_id)>>]

\* handleEndpointTool lines 509-556 for a tool called by name: the arguments
\* resolved against the store and the request built from them
Resolve(tool, args) ==
  /\ lastCall' = [called |-> TRUE, tool |-> tool, args |-> args,
                  resolved |-> resolveContextReferences(args, testContext),
                  request |-> BuildRequest(tool, args, testContext)]
  /\ UNCHANGED <<endpointTools, testContext, runs, inFlight>>
  /\ UNCHANGED parserVars

ResolveInit ==
  /\ ParserInit
  /\ endpointTools = EmptyMap
  /\ testContext \in Stores
  /\ runs = [r \in Runs |-> IdleRun]
  /\ inFlight = {}
  /\ lastCall = NoCall

ResolveNext == \E tool \in {CreateTool, DeleteTool}, args \in Calls : Resolve(tool, args)

ResolveSpec == ResolveInit /\ [][ResolveNext]_vars

(***************************************************************************)
(* Context resolution                                                      *)
(***************************************************************************)
RECURSIVE Occurs(_, _)
\* some string of the value tree v contains the text
Occurs(v, text) ==
  CASE v.t = "str" -> includes(v.s, text)
    [] v.t = "arr" -> \E i \in DOMAIN v.a : Occurs(v.a[i], text)
    [] v.t = "obj" -> \E i \in DOMAIN v.o : Occurs(v.o[i].v, text)
    [] OTHER -> FALSE

\* the last call names a store key with fromContext and carries no flag
IsFromContextCall ==
  /\ lastCall.called
  /\ IsStr(Get(lastCall.args, k_fromContext))
  /\ ~HasKey(lastCall.args, k_dynamicForeignKeys)
  /\ ~HasKey(lastCall.args, k_dynamicAuthorId)

\* C7: when fromContext names a key of the store holding an object, the
\* resolved arguments contain every field of the stored object, every field
\* given in the call has the call's value, and the resolved id is the stored
\* id when the stored object has one and the call gave none; when the key is
\* absent the arguments are left as given.
C7_FromContextMerge ==
  IsFromContextCall =>
    LET args == lastCall.args
        key == Get(args, k_fromContext).s
        resolved == lastCall.resolved
    IN IF key \in DOMAIN testContext
       THEN IsObjectLike(testContext[key]) =>
              /\ \A k \in Keys(testContext[key]) : HasKey(resolved, k)
              /\ \A k \in Keys(testContext[key]) \ Keys(args) :
                   Get(resolved, k) = Get(testContext[key], k)
              /\ \A k \in Keys(args) : Get(resolved, k) = Get(args, k)
              /\ (HasKey(testContext[key], k_id) /\ ~HasKey(args, k_id))
                   => Get(resolved, k_id) = Get(testContext[key], k_id)
       ELSE resolved = args

\* the dependencies of the last call, and the store's data for one of them
CallDeps == Get(lastCall.args, k_dynamicForeignKeys).a

DepData(dep) == TargetData(testContext, <<"e","x","i","s","t","i","n","g","_">> \o Get(dep, k_targetEndpoint).s)

HasForeignKeys == lastCall.called /\ IsArr(Get(lastCall.args, k_dynamicForeignKeys))

\* the store holds a non-empty list of objects for the dependency's target
IsFetched(dep) ==
  /\ IsArr(DepData(dep))
  /\ Len(DepData(dep).a) > 0
  /\ DepData(dep).a[1].t = "obj"

\* the store holds nothing, an empty list or a non-list for the target
IsUnfetched(dep) == ~IsArr(DepData(dep)) \/ Len(DepData(dep).a) = 0

C10_UnfetchedTargetSkipped ==
  HasForeignKeys =>
    /\ \A d \in DOMAIN CallDeps :
         (IsUnfetched(CallDeps[d]) /\ ~IsThrown(lastCall.resolved))
           => Occurs(lastCall.resolved, Get(CallDeps[d], k_marker).s)
    /\ (\A d \in DOMAIN CallDeps : IsUnfetched(CallDeps[d])) =>
         /\ ~IsThrown(lastCall.resolved)
         /\ Keys(lastCall.resolved) = Keys(lastCall.args) \ {k_dynamicForeignKeys}
         /\ \A k \in Keys(lastCall.resolved) : Get(lastCall.resolved, k) = Get(lastCall.args, k)
         /\ lastCall.tool = CreateTool =>
              /\ lastCall.request.sent
              /\ \A d \in DOMAIN CallDeps :
                   Occurs(lastCall.request.data, Get(CallDeps[d], k_marker).s)

\* a create call with two dependencies, the store holding a non-list for one
\* target and nothing for the other, sent with both markers in its body
C10_Witness ==
  /\ HasForeignKeys
  /\ lastCall.tool = CreateTool
  /\ Len(CallDeps) = 2
  /\ k_existingUsers \in DOMAIN testContext
  /\ ~IsArr(testContext[k_existingUsers])
  /\ k_existingPosts \notin DOMAIN testContext
  /\ lastCall.request.sent
  /\ Occurs(lastCall.request.data, m_users)
  /\ Occurs(lastCall.request.data, m_posts)



(***************************************************************************)
(* The round trip of a synthesized workflow                                *)
(***************************************************************************)
\* no marker text in any string of the value
MarkerFree(v) == ~Occurs(v, <<"{","{">>) /\ ~Occurs(v, <<"D","Y","N","A","M","I","C","_">>)

\* the step fetches a dependency, creates or deletes
IsRoundTripStep(step) ==
  \/ IsFetchStep(step)
  \/ HasPrefix(step.action, <<"c","r","e","a","t","e","_">>)
  \/ HasPrefix(step.action, <<"d","e","l","e","t","e","_">>)

\* the store holds a non-empty list for every dependency of the step
DependenciesFetched(step, store) ==
  LET fks == Get(step.args, k_dynamicForeignKeys)
  IN IsArr(fks) =>
       \A d \in DOMAIN fks.a :
         LET data == TargetData(store, <<"e","x","i","s","t","i","n","g","_">> \o Get(fks.a[d], k_targetEndpoint).s)
         IN IsArr(data) /\ Len(data.a) > 0

\* C9: in a run of a synthesized workflow, when the store holds the non-empty
\* lists its dependency-fetch steps returned as the create step is dispatched,
\* the body of every request sent by a fetch step, the create step and the
\* delete step holds no "{{" and no "DYNAMIC_" text.
C9_RoundTripMarkerFree ==
  \A r \in Runs :
    \A k \in DOMAIN runs[r].log :
      (/\ runs[r].log[k].request.sent
       /\ IsRoundTripStep(StepsOf(runs[r])[k])
       /\ DependenciesFetched(StepsOf(runs[r])[k], runs[r].log[k].store))
        => MarkerFree(runs[r].log[k].request.data)

\* a run whose fetch step returned users, whose create request carried the
\* first user's id in a nested object, and whose delete request was sent
C9_Witness ==
  \E r \in Runs :
    \E c, d \in DOMAIN runs[r].log :
      /\ c < d
      /\ HasPrefix(StepsOf(runs[r])[c].action, <<"c","r","e","a","t","e","_">>)
      /\ IsArr(Get(StepsOf(runs[r])[c].args, k_dynamicForeignKeys))
      /\ DependenciesFetched(StepsOf(runs[r])[c], runs[r].log[c].store)
      /\ runs[r].log[c].request.sent
      /\ Get(Get(runs[r].log[c].request.data, <<"m","e","t","a">>), <<"o","w","n","e","r","I","d">>) = id_u1
      /\ HasPrefix(StepsOf(runs[r])[d].action, <<"d","e","l","e","t","e","_">>)
      /\ runs[r].log[d].request.sent







(***************************************************************************)
(* Claims about the context store                                          *)
(***************************************************************************)
\* run r's awaited request is answered in this step
Answered(r) ==
  /\ runs[r].status = "awaiting"
  /\ runs'[r].log[Len(runs[r].log)].outcome = "completed"

\* C11: every successful tool call that declares saveToContext K leaves the
\* store holding that call's response payload under K, whatever the payload
\* is and whatever K held before.
C11_PayloadSavedUnderKey ==
  [][\A r \in DOMAIN runs :
       (Answered(r) /\ Truthy(Get(AwaitedArgs(runs[r]), k_saveToContext))) =>
         /\ Get(AwaitedArgs(runs[r]), k_saveToContext).s \in DOMAIN testContext'
         /\ testContext'[Get(AwaitedArgs(runs[r]), k_saveToContext).s]
              = runs'[r].log[Len(runs[r].log)].response]_vars

\* the same for the payloads JavaScript holds true: objects, arrays, non-empty
\* strings
C11_TruthyPayloadSaved ==
  [][\A r \in DOMAIN runs :
       (/\ Answered(r)
        /\ Truthy(Get(AwaitedArgs(runs[r]), k_saveToContext))
        /\ Truthy(runs'[r].log[Len(runs[r].log)].response)) =>
         /\ Get(AwaitedArgs(runs[r]), k_saveToContext).s \in DOMAIN testContext'
         /\ testContext'[Get(AwaitedArgs(runs[r]), k_saveToContext).s]
              = runs'[r].log[Len(runs[r].log)].response]_vars

(***************************************************************************)
(* RaceSpec: two run_workflow calls served by one server. The handler of a *)
(* call suspends at each await, so the steps of the two runs interleave;   *)
(* both use the server's one testContext.                                  *)
(***************************************************************************)
RaceRunCount == 2

RaceRuns == 1..RaceRunCount

\* the record the backend creates for the create request of run r
CreatedBy(r) == JObj(<<Entry(k_id, JStr(<<"p">> \o RunTag(r))), Entry(p_title, JStr(<<"t">>))>>)

\* what the backend answers to a request of run r
RacePayloads(r, request) ==
  IF request.method = "GET" /\ ~pathHasParam(request.path)
  THEN { JArr(<< JObj(<<Entry(k_id, id_u1)>>) >>) }
  ELSE IF request.method = "POST" THEN { CreatedBy(r) }
  ELSE { JNull }

RaceInit ==
  /\ ParserInit
  /\ endpointTools = EmptyMap
  /\ testContext = EmptyMap
  /\ runs = [r \in RaceRuns |-> IdleRun]
  /\ inFlight = {}
  /\ lastCall = NoCall

\* the server is started with the scenario's document
RaceInitialize == ParseFromFile(ScenarioDocument) /\ UNCHANGED serverVars

\* the client lists the tools, then calls run_workflow posts_crud_workflow
\* with stopOnError: true, any number of calls being served at a time
RaceNext ==
  \/ RaceInitialize
  \/ Started /\ endpointTools = EmptyMap /\ ListTools
  \/ \E r \in RaceRuns :
       /\ Started
       /\ endpointTools # EmptyMap
       /\ CallRunWorkflow(r, WorkflowName(s_posts), JBool(TRUE))
  \/ \E r \in RaceRuns : StepStart(r)
  \/ \E r \in RaceRuns :
       /\ runs[r].status = "awaiting"
       /\ \E data \in RacePayloads(r, runs[r].log[Len(runs[r].log)].request) : StepReturn(r, data)
  \/ \E r \in RaceRuns : StepThrow(r)

RaceSpec == RaceInit /\ [][RaceNext]_vars

\* the request the next step of a running run would send in the next state
NextRequestAfter(r) ==
  StepRequest(endpointTools', StepsOf(runs'[r])[runs'[r].i + 1], testContext')

\* run r is about to start a step that reads key from the store
ReadsNext(r, key) ==
  /\ runs'[r].status = "running"
  /\ SourceKey(StepsOf(runs'[r])[runs'[r].i + 1]) = key

\* C12: runs share one store without isolation: once a run's step has saved
\* its payload under K, a step of any other run that reads fromContext K
\* next resolves to that payload, so its get or delete targets the record of
\* the run that saved last.
C12_RunsShareStore ==
  [][\A r \in DOMAIN runs, other \in DOMAIN runs :
       (/\ r # other
        /\ Answered(r)
        /\ Truthy(Get(AwaitedArgs(runs[r]), k_saveToContext))
        /\ ReadsNext(other, Get(AwaitedArgs(runs[r]), k_saveToContext))) =>
         /\ NextRequestAfter(other).sent
         /\ NextRequestAfter(other).id = Get(runs'[r].log[Len(runs[r].log)].response, k_id)]_vars

\* run 1 created p1, run 2 then created p2, and run 1's get and delete were
\* sent for p2
C12_Witness ==
  /\ Len(runs[1].log) = 5
  /\ Len(runs[2].log) >= 2
  /\ runs[1].log[2].response = CreatedBy(1)
  /\ runs[2].log[2].response = CreatedBy(2)
  /\ runs[1].log[4].request.sent /\ runs[1].log[4].request.method = "GET"
  /\ runs[1].log[4].request.id = Get(CreatedBy(2), k_id)
  /\ runs[1].log[5].request.sent /\ runs[1].log[5].request.method = "DELETE"
  /\ runs[1].log[5].request.id = Get(CreatedBy(2), k_id)



(***************************************************************************)
(* PathSpec: one parser instance given a document whose path templates     *)
(* are listed in any order                                                 *)
(***************************************************************************)
\* /users, /users/{id}, /users/{id}/posts and /users/{id}/posts/{pid}, which
\* all belong to the endpoint users, and /{id}, which belongs to root
UserTemplates ==
  { <<Seg(s_users)>>,
    <<Seg(s_users), Param(k_id)>>,
    <<Seg(s_users), Param(k_id), Seg(s_posts)>>,
    <<Seg(s_users), Param(k_id), Seg(s_posts), Param(<<"p","i","d">>)>>,
    <<Param(k_id)>> }

\* the verb sets a template's path item may define
TemplateVerbs == {{"get"}, {"get", "post", "delete"}}

\* the lists of distinct templates: Object.entries(spec.paths) in document order
TemplateOrders ==
  { order \in UNION { [1..n -> UserTemplates] : n \in 1..Cardinality(UserTemplates) } :
      \A i, j \in DOMAIN order : i # j => order[i] # order[j] }

PathDocuments ==
  { Document([i \in DOMAIN order |-> [template |-> order[i], item |-> PathItem(verbs, UserSchema)]]) :
      order \in TemplateOrders, verbs \in TemplateVerbs }

PathParse ==
  /\ \E doc \in PathDocuments : ParseFromFile(doc)
  /\ UNCHANGED serverVars

PathSpec == Init /\ [][PathParse]_vars

(***************************************************************************)
(* Claims about the endpoint registry                                      *)
(***************************************************************************)
\* the positions in the document of the templates of an endpoint name
PositionsOf(name) ==
  {i \in DOMAIN spec.paths : extractEndpointName(spec.paths[i].template) = name}

EndpointNames == {extractEndpointName(spec.paths[i].template) : i \in DOMAIN spec.paths}

DefinesGet(i) == "get" \in DOMAIN spec.paths[i].item

\* a collection template and an item template of the name both define GET
HasListAndItemGet(name) ==
  /\ \E i \in PositionsOf(name) : DefinesGet(i) /\ ~pathEndsWithParam(spec.paths[i].template)
  /\ \E i \in PositionsOf(name) : DefinesGet(i) /\ pathEndsWithParam(spec.paths[i].template)

\* C13: when a collection template and an item template that both define GET
\* map to one endpoint name, the registry has exactly one entry of that name
\* and its operations hold GET_COLLECTION and GET as separate keys, whatever
\* the order of the templates.
C13_OneEntryBothGets ==
  parseOutcome = "returned" =>
    \A name \in EndpointNames :
      HasListAndItemGet(name) =>
        /\ name \in DOMAIN endpoints
        /\ Cardinality({i \in DOMAIN endpointOrder : endpointOrder[i] = name}) = 1
        /\ {"GET_COLLECTION", "GET"} \subseteq DOMAIN endpoints[name].operations
        /\ ~pathEndsWithParam(endpoints[name].operations["GET_COLLECTION"].path)
        /\ pathEndsWithParam(endpoints[name].operations["GET"].path)

\* a document listing /users/{id} before /users, parsed, users holding both keys
C13_Witness ==
  /\ parseOutcome = "returned"
  /\ Len(spec.paths) >= 2
  /\ spec.paths[1].template = <<Seg(s_users), Param(k_id)>>
  /\ spec.paths[2].template = <<Seg(s_users)>>
  /\ {"GET_COLLECTION", "GET"} \subseteq DOMAIN endpoints[s_users].operations

\* C14: an endpoint name with both a non-parameterized and a parameterized
\* template has a non-parameterized template as its path, whatever the order
\* of the templates; one with parameterized templates only keeps a
\* parameterized path.
C14_CanonicalPath ==
  parseOutcome = "returned" =>
    \A name \in EndpointNames :
      /\ name \in DOMAIN endpoints
      /\ endpoints[name].path \in {spec.paths[i].template : i \in PositionsOf(name)}
      /\ (\E i \in PositionsOf(name) : ~pathHasParam(spec.paths[i].template))
           => ~pathHasParam(endpoints[name].path)
      /\ (\A i \in PositionsOf(name) : pathHasParam(spec.paths[i].template))
           => pathHasParam(endpoints[name].path)

\* /users listed between two parameterized templates of users, and root with
\* its parameterized template only
C14_Witness ==
  /\ parseOutcome = "returned"
  /\ Len(spec.paths) >= 4
  /\ spec.paths[1].template = <<Seg(s_users), Param(k_id)>>
  /\ spec.paths[2].template = <<Seg(s_users)>>
  /\ spec.paths[3].template = <<Seg(s_users), Param(k_id), Seg(s_posts)>>
  /\ endpoints[s_users].path = <<Seg(s_users)>>
  /\ <<"r","o","o","t">> \in DOMAIN endpoints
  /\ pathHasParam(endpoints[<<"r","o","o","t">>].path)

(***************************************************************************)
(* RefSpec: resolveSchemaReference called on a parser whose document is    *)
(* loaded, for schema nodes nested to a bounded depth                      *)
(***************************************************************************)
n_User == <<"U","s","e","r">>

n_Post == <<"P","o","s","t">>

n_Tag == <<"T","a","g">>

n_Alias == <<"A","l","i","a","s">>

n_Loose == <<"L","o","o","s","e">>

n_Gone == <<"G","o","n","e">>

\* a node that carries properties and no type
Untyped(properties) == [SchemaBase EXCEPT !.properties = JObj(properties)]

\* components.schemas: Post refers to User and Tag, Alias is a pointer to
\* Post, Loose has properties and no type; Gone is defined nowhere
SchemaTable(withTag) ==
  JObj(<< Entry(n_User, SObject(<< Entry(<<"n","a","m","e">>, SString("")) >>, <<>>)),
          Entry(n_Post, SObject(<< Entry(<<"a","u","t","h","o","r">>, SRef(n_User)),
                                   Entry(<<"t","a","g","s">>, SArray(SRef(n_Tag))) >>, <<>>)),
          Entry(n_Alias, SRef(n_Post)),
          Entry(n_Loose, Untyped(<< Entry(<<"o","w","n","e","r">>, SRef(n_User)) >>)) >>
       \o (IF withTag THEN << Entry(n_Tag, SString("")) >> ELSE <<>>))

RefDocuments == { [hasPaths |-> TRUE, paths |-> <<>>, schemas |-> SchemaTable(withTag)] :
                    withTag \in BOOLEAN }

RefDepth == 2

RefLeaves == {SString("")} \cup {SRef(n) : n \in {n_User, n_Post, n_Tag, n_Alias, n_Loose, n_Gone}}

\* a node around an inner node: an array of it, an object or an untyped node
\* with it as a property, an object that also carries it as items
Wrapped(inner) ==
  { SArray(inner),
    SObject(<< Entry(<<"x">>, inner) >>, <<>>),
    Untyped(<< Entry(<<"x">>, inner) >>),
    [SObject(<< Entry(<<"x">>, SString("")) >>, <<>>) EXCEPT !.items = inner] }

RECURSIVE RefNodes(_)
RefNodes(depth) ==
  IF depth = 0 THEN RefLeaves
  ELSE RefLeaves \cup UNION { Wrapped(inner) : inner \in RefNodes(depth - 1) }

\* resolveSchemaReference(node), and the same on what it returned
ResolveSchema(node) ==
  /\ lastCall' = [called |-> TRUE, schema |-> node,
                  resolved |-> resolveSchemaReference(spec, node),
                  again |-> resolveSchemaReference(spec, resolveSchemaReference(spec, node))]
  /\ UNCHANGED <<endpointTools, testContext, runs, inFlight>>
  /\ UNCHANGED parserVars

\* the parser after parseFromFile returned for a document with an empty
\* paths table
RefInit ==
  /\ spec \in RefDocuments
  /\ endpoints = EmptyMap
  /\ endpointOrder = <<>>
  /\ workflows = EmptyMap
  /\ parseOutcome = "returned"
  /\ ServerInit

RefNext == \E node \in RefNodes(RefDepth) \cup {JNull} : ResolveSchema(node)

RefSpec == RefInit /\ [][RefNext]_vars

(***************************************************************************)
(* Claims about schema references                                          *)
(***************************************************************************)
RECURSIVE HasRef(_)
\* a $ref is reachable from the node through properties and items
HasRef(node) ==
  IF ~Truthy(node) THEN FALSE
  ELSE \/ Truthy(node.ref)
       \/ /\ Truthy(node.properties)
          /\ \E i \in DOMAIN node.properties.o : HasRef(node.properties.o[i].v)
       \/ Truthy(node.items) /\ HasRef(node.items)

RECURSIVE HasRefUnderTypes(_)
\* a $ref is reachable from the node through the properties of nodes of type
\* object and the items of nodes of type array
HasRefUnderTypes(node) ==
  IF ~Truthy(node) THEN FALSE
  ELSE \/ Truthy(node.ref)
       \/ /\ node.type = "object"
          /\ Truthy(node.properties)
          /\ \E i \in DOMAIN node.properties.o : HasRefUnderTypes(node.properties.o[i].v)
       \/ node.type = "array" /\ Truthy(node.items) /\ HasRefUnderTypes(node.items)

p_author == <<"a","u","t","h","o","r">>

p_tags == <<"t","a","g","s">>

\* the request schemas of posts: a property, a required property, the items
\* of an array property or the whole schema pointing to the undefined Gone,
\* and a property pointing to the defined User
DanglingSchemas ==
  { SObject(<< Entry(p_title, SString("")), Entry(p_author, SRef(n_Gone)) >>, << p_title >>),
    SObject(<< Entry(p_title, SString("")), Entry(p_author, SRef(n_Gone)) >>, << p_title, p_author >>),
    SObject(<< Entry(p_title, SString("")), Entry(p_tags, SArray(SRef(n_Gone))) >>, << p_title >>),
    SRef(n_Gone),
    SObject(<< Entry(p_title, SString("")), Entry(p_author, SRef(n_User)) >>, << p_title >>) }

DanglingDocuments ==
  { [Document(ResourcePaths(s_posts, pc, pi, ps)) EXCEPT !.schemas = SchemaTable(TRUE)] :
      pc \in SUBSET {"get", "post"}, pi \in SUBSET {"get", "put", "delete"},
      ps \in DanglingSchemas }

DanglingParse ==
  /\ \E doc \in DanglingDocuments : ParseFromFile(doc)
  /\ UNCHANGED serverVars

DanglingSpec == Init /\ [][DanglingParse]_vars

(***************************************************************************)
(* Claims about unresolvable references                                    *)
(***************************************************************************)
\* the request-body schema of the document's POST of posts
PostedSchema ==
  IF \E i \in DOMAIN spec.paths : "post" \in DOMAIN spec.paths[i].item
  THEN LET i == CHOOSE j \in DOMAIN spec.paths : "post" \in DOMAIN spec.paths[j].item
       IN spec.paths[i].item["post"].requestBody.schema
  ELSE JNull

\* the schema has a property that is a pointer without target
HasDanglingProperty(schema) ==
  /\ Truthy(schema)
  /\ Truthy(schema.properties)
  /\ \E i \in DOMAIN schema.properties.o :
       /\ Truthy(schema.properties.o[i].v.ref)
       /\ ~HasKey(spec.schemas, schema.properties.o[i].v.ref.s)

\* C16: an unresolvable $ref is not fatal: parsing a document whose
\* request-body schema has a property with an unresolvable $ref completes,
\* the registry and the workflows are produced, and the property is absent
\* from the sample data.
C16_DanglingRefNotFatal ==
  (parseOutcome # "none" /\ HasDanglingProperty(PostedSchema)) =>
    /\ parseOutcome = "returned"
    /\ s_posts \in DOMAIN endpoints
    /\ (FourOperations \subseteq DOMAIN endpoints[s_posts].operations)
         => /\ WorkflowName(s_posts) \in DOMAIN workflows
            /\ \A i \in DOMAIN workflows[WorkflowName(s_posts)].steps :
                 ~HasKey(workflows[WorkflowName(s_posts)].steps[i].args, p_author)

\* the same for the documents whose posts endpoint gets no workflow
C16_NotFatalWithoutWorkflow ==
  (/\ parseOutcome # "none"
   /\ HasDanglingProperty(PostedSchema)
   /\ s_posts \in DOMAIN endpoints
   /\ ~(FourOperations \subseteq DOMAIN endpoints[s_posts].operations)) =>
    parseOutcome = "returned"

(***************************************************************************)
(* SampleSpec: generateSampleValueForProp called on a parser that has      *)
(* parsed a document, for string properties of several names               *)
(***************************************************************************)
s_categories == <<"c","a","t","e","g","o","r","i","e","s">>

\* documents with or without users and categories, and always posts
SampleDocuments ==
  { Document((IF withUsers THEN ResourcePaths(s_users, {"get", "post"}, {"get"}, UserSchema) ELSE <<>>)
             \o (IF withCategories THEN ResourcePaths(s_categories, {"get"}, {"get"}, Undefined) ELSE <<>>)
             \o ResourcePaths(s_posts, {"get"}, {"get"}, Undefined)) :
      withUsers \in BOOLEAN, withCategories \in BOOLEAN }

UsersKeyNames == { <<"a","u","t","h","o","r","I","d">>, <<"u","s","e","r","I","d">>, <<"o","w","n","e","r","I","d">> }

SamplePropNames ==
  UsersKeyNames \cup { <<"c","r","e","a","t","o","r","_","i","d">>, <<"i","d","_","u","s","e","r">>, <<"c","a","t","e","g","o","r","y","I","d">>, <<"c","o","m","m","e","n","t","I","d">>, <<"t","i","t","l","e">> }

\* string schemas: with and without format uuid, an example, an enum
SamplePropSchemas ==
  { [SString(format) EXCEPT !.example = example, !.enum = enum] :
      format \in {"uuid", ""},
      example \in {Undefined, JStr(<<"0","0","0","0","0","0","0","0","-","0","0","0","0","-","4","0","0","0","-","8","0","0","0","-","0","0","0","0","0","0","0","0","0","0","0","0">>)},
      enum \in {<<>>, << JStr(<<"e","1">>) >>} }

SampleDocumentParse ==
  /\ \E doc \in SampleDocuments : ParseFromFile(doc)
  /\ UNCHANGED serverVars

\* generateSampleValueForProp(propName, propSchema, endpointName)
SampleValue(propName, propSchema, endpointName) ==
  /\ parseOutcome = "returned"
  /\ lastCall' = [called |-> TRUE, propName |-> propName, propSchema |-> propSchema,
                  value |-> generateSampleValueForProp(endpoints, propName, propSchema, endpointName)]
  /\ UNCHANGED <<endpointTools, testContext, runs, inFlight>>
  /\ UNCHANGED parserVars

SampleNext ==
  \/ SampleDocumentParse
  \/ \E propName \in SamplePropNames, propSchema \in SamplePropSchemas :
       SampleValue(propName, propSchema, s_posts)

SampleSpec == Init /\ [][SampleNext]_vars

(***************************************************************************)
(* Claims about foreign keys in the sample data                            *)
(***************************************************************************)
\* the last call was for a uuid string property named authorId, userId or
\* ownerId on a registry that has users
IsUsersKeyCall ==
  /\ lastCall.called
  /\ lastCall.propName \in UsersKeyNames
  /\ lastCall.propSchema.type = "string"
  /\ lastCall.propSchema.format = "uuid"
  /\ s_users \in DOMAIN endpoints

FetchTarget(step) == SubSeq(step.action, 6, Len(step.action))

\* none of the patterns the property name matches names a registered endpoint
NamesNoEndpoint(propName) ==
  \A i \in DOMAIN fkCaptures(propName) :
    fkCaptures(propName)[i] # <<>> => fkTarget(fkCaptures(propName)[i]) \notin DOMAIN endpoints

\* the uuid string properties of an endpoint's schema that are sampled by
\* format: not read-only, without example and enum
UuidProperties(schema) ==
  IF ~Truthy(schema) \/ ~Truthy(schema.properties) THEN {}
  ELSE { schema.properties.o[i].k : i \in
           { j \in DOMAIN schema.properties.o :
               /\ Truthy(schema.properties.o[j].v)
               /\ schema.properties.o[j].v.type = "string"
               /\ schema.properties.o[j].v.format = "uuid"
               /\ ~schema.properties.o[j].v.readOnly
               /\ schema.properties.o[j].v.example = Undefined
               /\ schema.properties.o[j].v.enum = <<>> } }

Malformed == [t |-> "malformed"]

\* error.message of fs.readFile for a missing file
NoSuchFileCause == <<"E","N","O","E","N","T",":"," ","n","o"," ","s","u","c","h"," ","f","i","l","e"," ","o","r"," ","d","i","r","e","c","t","o","r","y">>

\* error.message of the YAML or JSON parser for malformed content
SyntaxCause == <<"U","n","e","x","p","e","c","t","e","d"," ","t","o","k","e","n">>

\* line 34
UnsupportedCause(ext) ==
  <<"U","n","s","u","p","p","o","r","t","e","d"," ","f","i","l","e"," ","f","o","r","m","a","t",":"," ">> \o ext \o <<"."," ","U","s","e"," ",".","y","m","l",","," ",".","y","a","m","l",","," ","o","r"," ",".","j","s","o","n">>

\* line 109
NoPathsCause == <<"N","o"," ","p","a","t","h","s"," ","f","o","u","n","d"," ","i","n"," ","O","p","e","n","A","P","I"," ","s","p","e","c","i","f","i","c","a","t","i","o","n">>

\* reading a property of the null an empty file parses to, or of a null
\* property schema
NullReadCause == <<"C","a","n","n","o","t"," ","r","e","a","d"," ","p","r","o","p","e","r","t","i","e","s"," ","o","f"," ","n","u","l","l">>

\* the error rethrown as it was caught
Rethrown(cause) == cause

\* lines 46-49: the message of the error parseFromFile throws
FailureMessage(cause) == <<"F","a","i","l","e","d"," ","t","o"," ","p","a","r","s","e"," ","O","p","e","n","A","P","I"," ","s","p","e","c",":"," ">> \o cause

FileExtensions == { <<".","y","m","l">>, <<".","y","a","m","l">>, <<".","j","s","o","n">>, <<".","Y","A","M","L">>, <<".","t","x","t">>, <<>> }

\* what the parsed content is: nothing parsable, null, a document without
\* paths, documents with paths, two of them with an unresolvable property
FileContents ==
  {Malformed, JNull, NoDocument} \cup SampleDocuments \cup ServerDocuments
  \cup { [Document(ResourcePaths(s_posts, {"get", "post"}, {"get", "delete"}, ps))
            EXCEPT !.schemas = SchemaTable(TRUE)] :
           ps \in { SObject(<< Entry(p_author, SRef(n_Gone)) >>, <<>>),
                    SObject(<< Entry(p_author, SRef(n_User)) >>, <<>>) } }

Files == [exists : BOOLEAN, ext : FileExtensions, content : FileContents]

\* lines 26-35: what the try block throws before this.spec is set, <<>> if nothing
LoadCause(file) ==
  IF ~file.exists THEN NoSuchFileCause
  ELSE IF toLowerCase(file.ext) \notin { <<".","y","m","l">>, <<".","y","a","m","l">>, <<".","j","s","o","n">> }
  THEN UnsupportedCause(toLowerCase(file.ext))
  ELSE IF file.content = Malformed THEN SyntaxCause
  ELSE <<>>

\* what generateEndpoints or generateWorkflows threw for the loaded content
DocumentCause(content) ==
  IF content = JNull THEN NullReadCause
  ELSE IF ~content.hasPaths THEN NoPathsCause
  ELSE NullReadCause

\* the call recorded: the file, and the message of the error thrown if any
FileCall(file, threw, cause) ==
  [called |-> TRUE, file |-> file, threw |-> threw,
   message |-> IF threw THEN FailureMessage(cause) ELSE <<>>]

\* parseFromFile(filePath) for the file
ParseFile(file) ==
  /\ parseOutcome = "none"
  /\ IF LoadCause(file) # <<>>
     THEN /\ parseOutcome' = "threw"
          /\ UNCHANGED <<spec, endpoints, endpointOrder, workflows>>
     ELSE IF file.content = JNull
     THEN /\ spec' = JNull
          /\ parseOutcome' = "threw"
          /\ UNCHANGED <<endpoints, endpointOrder, workflows>>
     ELSE ParseFromFile(file.content)
  /\ lastCall' = FileCall(file, parseOutcome' = "threw",
                          IF LoadCause(file) # <<>> THEN LoadCause(file)
                          ELSE DocumentCause(file.content))
  /\ UNCHANGED <<endpointTools, testContext, runs, inFlight>>

FileNext == \E file \in Files : ParseFile(file)

FileSpec == Init /\ [][FileNext]_vars

(***************************************************************************)
(* C19                                                                     *)
(***************************************************************************)
\* the cause a bad file is refused for, <<>> for a file that is not bad
NamedCause(file) ==
  IF ~file.exists THEN NoSuchFileCause
  ELSE IF toLowerCase(file.ext) \notin { <<".","y","m","l">>, <<".","y","a","m","l">>, <<".","j","s","o","n">> }
  THEN <<"U","n","s","u","p","p","o","r","t","e","d"," ","f","i","l","e"," ","f","o","r","m","a","t",":"," ">> \o toLowerCase(file.ext)
  ELSE IF file.content = Malformed THEN SyntaxCause
  ELSE IF file.content # JNull /\ ~file.content.hasPaths THEN NoPathsCause
  ELSE <<>>

\* C19: parseFromFile never returns a model for bad input: for a missing
\* file, an unsupported extension, malformed content or a document without
\* a paths table it throws, registers nothing, and the message of the error
\* starts with 'Failed to parse OpenAPI spec' and contains the cause.
C19_BadInputThrows ==
  (lastCall.called /\ NamedCause(lastCall.file) # <<>>) =>
    /\ parseOutcome = "threw"
    /\ lastCall.threw
    /\ endpoints = EmptyMap
    /\ workflows = EmptyMap
    /\ startsWithAt(lastCall.message, <<"F","a","i","l","e","d"," ","t","o"," ","p","a","r","s","e"," ","O","p","e","n","A","P","I"," ","s","p","e","c">>, 1)
    /\ includes(lastCall.message, NamedCause(lastCall.file))

\* a .txt file, and a YAML document without paths, were given and refused
C19_Witness ==
  /\ lastCall.called
  /\ parseOutcome = "threw"
  /\ \/ /\ lastCall.file.exists
        /\ lastCall.file.ext = <<".","t","x","t">>
        /\ lastCall.message =
             <<"F","a","i","l","e","d"," ","t","o"," ","p","a","r","s","e"," ","O","p","e","n","A","P","I"," ","s","p","e","c",":"," ","U","n","s","u","p","p","o","r","t","e","d"," ","f","i","l","e"," ","f","o","r","m","a","t",":"," ",".","t","x","t","."," ","U","s","e"," ",".","y","m","l",","," ",".","y","a","m","l",","," ","o","r"," ",".","j","s","o","n">>
     \/ /\ lastCall.file.exists
        /\ lastCall.file.ext = <<".","y","a","m","l">>
        /\ lastCall.file.content = NoDocument
        /\ lastCall.message =
             <<"F","a","i","l","e","d"," ","t","o"," ","p","a","r","s","e"," ","O","p","e","n","A","P","I"," ","s","p","e","c",":"," ","N","o"," ","p","a","t","h","s"," ","f","o","u","n","d"," ","i","n"," ","O","p","e","n","A","P","I"," ","s","p","e","c","i","f","i","c","a","t","i","o","n">>

(***************************************************************************)
(* C20                                                                     *)
(***************************************************************************)
\* the positions of the steps whose action starts with 'create'
CreateSteps(workflow) ==
  { i \in DOMAIN workflow.steps : startsWithAt(workflow.steps[i].action, <<"c","r","e","a","t","e">>, 1) }

\* the args carry a data object and every field of it beside it
CarriesData(args) ==
  /\ HasKey(args, k_data)
  /\ Get(args, k_data).t = "obj"
  /\ \A i \in DOMAIN Entries(Get(args, k_data)) :
       LET e == Entries(Get(args, k_data))[i]
       IN HasKey(args, e.k) /\ Get(args, e.k) = e.v

\* C20: every synthesized workflow has at least one step, and the args of
\* its create step include a raw data object alongside the flattened sample
\* fields, whatever request body the POST operation declares.
C20_CreateCarriesData ==
  \A n \in DOMAIN workflows :
    /\ Len(workflows[n].steps) > 0
    /\ CreateSteps(workflows[n]) # {}
    /\ \A i \in CreateSteps(workflows[n]) : CarriesData(workflows[n].steps[i].args)

\* every workflow has a step, and the create step of an endpoint whose POST
\* declares a request body with a schema carries the data object and its
\* fields
C20_CreateCarriesDataOfBody ==
  \A e \in DOMAIN endpoints :
    WorkflowName(e) \in DOMAIN workflows =>
      /\ Len(workflows[WorkflowName(e)].steps) > 0
      /\ CreateSteps(workflows[WorkflowName(e)]) # {}
      /\ Truthy(extractSchemaFromRequestBody(spec, endpoints[e].operations["POST"].requestBody)) =>
           \A i \in CreateSteps(workflows[WorkflowName(e)]) :
             CarriesData(workflows[WorkflowName(e)].steps[i].args)

FlagCalls ==
  { JObj(<< Entry(p_title, JStr(<<"t">>)), Entry(p_authorId, JStr(m_users)),
            Entry(k_dynamicForeignKeys, flag) >>) :
      flag \in { JArr(<<>>), JStr(s_users), Dep(p_authorId, s_users, m_users) } }

FlagNext ==
  \E tool \in {CreateTool, DeleteTool}, args \in Calls \cup FlagCalls : Resolve(tool, args)

FlagSpec == ResolveInit /\ [][FlagNext]_vars

(***************************************************************************)
(* C22                                                                     *)
(***************************************************************************)
\* neither the resolved arguments nor the body of the request carry the flag
FlagGone ==
  /\ ~HasKey(lastCall.resolved, k_dynamicForeignKeys)
  /\ (lastCall.request.sent /\ lastCall.request.data.t = "obj") =>
        ~HasKey(lastCall.request.data, k_dynamicForeignKeys)

\* C22: _dynamicForeignKeys is never part of what is dispatched: after the
\* resolution the resolved arguments, and the request body built from them,
\* have no _dynamicForeignKeys key, whether or not a marker was replaced.
C22_FlagNeverDispatched ==
  (lastCall.called /\ ~IsThrown(lastCall.resolved)) => FlagGone

\* a flag that is a list, empty or not, is never dispatched
C22_ListFlagNeverDispatched ==
  (/\ lastCall.called
   /\ ~IsThrown(lastCall.resolved)
   /\ ~(HasKey(lastCall.args, k_dynamicForeignKeys)
        /\ ~IsArr(Get(lastCall.args, k_dynamicForeignKeys)))) => FlagGone

(***************************************************************************)
(* C23                                                                     *)
(***************************************************************************)
\* the sequence without the repetitions of an earlier element
FirstSeen(seq) ==
  LET keep == {i \in DOMAIN seq : \A j \in 1..(i - 1) : seq[j] # seq[i]}
      F[i \in 0..Len(seq)] ==
        IF i = 0 THEN <<>> ELSE IF i \in keep THEN Append(F[i - 1], seq[i]) ELSE F[i - 1]
  IN F[Len(seq)]

\* the markers of the create payload, in the order of its serialization
PayloadMarkers(create) == StringifyMatches(Delete(create.args, k_dynamicForeignKeys))

\* one fetch step per target, in the order the targets are first seen
FetchesFirstSeen(steps, targets) ==
  /\ FetchCount(steps) = Len(targets)
  /\ \A i \in DOMAIN targets :
       /\ steps[i].action = <<"l","i","s","t","_">> \o targets[i]
       /\ SavedKey(steps[i]) = JStr(<<"e","x","i","s","t","i","n","g","_">> \o targets[i])
  /\ \A i, j \in 1..FetchCount(steps) :
       i # j => /\ steps[i].action # steps[j].action
                /\ SavedKey(steps[i]) # SavedKey(steps[j])

\* one _dynamicForeignKeys entry per marker, none without a marker
OneEntryPerMarker(create, markers) ==
  IF markers = <<>> THEN ~HasKey(create.args, k_dynamicForeignKeys)
  ELSE /\ IsArr(Get(create.args, k_dynamicForeignKeys))
       /\ Len(Get(create.args, k_dynamicForeignKeys).a) = Len(markers)
       /\ \A i \in DOMAIN markers :
            Get(Get(create.args, k_dynamicForeignKeys).a[i], k_marker) = JStr(markers[i])

\* C23: in every synthesized workflow the dependency-fetch steps are one per
\* distinct target of the create payload, in first-seen order, no two with
\* the same action or context key, and the create step's _dynamicForeignKeys
\* has exactly one entry per distinct marker of the payload.
C23_DependenciesDeduplicated ==
  \A w \in DOMAIN workflows :
    LET steps == workflows[w].steps
        create == steps[FetchCount(steps) + 1]
    IN /\ FetchesFirstSeen(steps,
            FirstSeen([i \in DOMAIN PayloadMarkers(create) |->
                         MarkerTarget(PayloadMarkers(create)[i])]))
       /\ OneEntryPerMarker(create, FirstSeen(PayloadMarkers(create)))

\* a create payload naming users four times and posts twice, with two fetch
\* steps and two entries
C23_Witness ==
  \E w \in DOMAIN workflows :
    LET steps == workflows[w].steps
        create == steps[FetchCount(steps) + 1]
    IN /\ FetchCount(steps) = 2
       /\ Len(PayloadMarkers(create)) >= 6
       /\ Cardinality({i \in DOMAIN PayloadMarkers(create) :
                         PayloadMarkers(create)[i] = m_users}) = 4
       /\ Len(Get(create.args, k_dynamicForeignKeys).a) = 2

(***************************************************************************)
(* C25                                                                     *)
(***************************************************************************)
\* the names of the tools the catalogue generates from the registry
ToolNames == DOMAIN generateTools(endpoints, endpointOrder, EmptyMap)

\* C25: for every workflow synthesized from a registry, each step's action
\* is the name of a tool the tool catalogue generates from the same
\* registry, the dependency-fetch steps and the update steps of endpoints
\* that define only PATCH included.
C25_StepsAreTools ==
  \A w \in DOMAIN workflows :
    \A i \in DOMAIN workflows[w].steps : workflows[w].steps[i].action \in ToolNames

\* the create, list, get and delete steps are tools, and so is the update
\* step of an endpoint that defines PUT
C25_OwnStepsAreTools ==
  \A e \in DOMAIN endpoints :
    WorkflowName(e) \in DOMAIN workflows =>
      \A i \in DOMAIN workflows[WorkflowName(e)].steps :
        LET step == workflows[WorkflowName(e)].steps[i]
        IN (/\ ~IsFetchStep(step)
            /\ HasPrefix(step.action, <<"u","p","d","a","t","e","_">>) => hasOperation(endpoints[e], "PUT"))
           => step.action \in ToolNames

(***************************************************************************)
(* LegacySpec: resolveContextReferences on calls carrying the legacy       *)
(* marker, with and without the _dynamicAuthorId flag                      *)
(***************************************************************************)
\* the strings a call may carry where the legacy marker is expected
LegacyStrings == { Repeated(LegacyMarker, n) : n \in 1..MaxOccurrences } \cup { <<"b","y"," ">> \o LegacyMarker }

\* the flag as a call may carry it
LegacyFlags == { JBool(TRUE), JBool(FALSE), Undefined }

WithFlag(args, flag) == IF flag = Undefined THEN args ELSE Put(args, k_dynamicAuthorId, flag)

\* create calls with the legacy marker in a field, in the raw data object and
\* in a list
LegacyCalls ==
  { WithFlag(JObj(<< Entry(k_data, JObj(<< Entry(p_authorId, JStr(m)) >>)),
                     Entry(p_title, JStr(<<"t">>)),
                     Entry(p_authorId, JStr(m)) >>), flag) :
      m \in LegacyStrings, flag \in LegacyFlags }
  \cup
  { WithFlag(JObj(<< Entry(<<"r","e","v","i","e","w","e","r","s">>, JArr(<< JStr(LegacyMarker), JStr(<<"r","2">>) >>)) >>), flag) :
      flag \in LegacyFlags }

LegacyNext == \E tool \in {CreateTool, DeleteTool}, args \in LegacyCalls : Resolve(tool, args)

LegacySpec == ResolveInit /\ [][LegacyNext]_vars

(***************************************************************************)
(* C24                                                                     *)
(***************************************************************************)
\* the last call carries the legacy marker and resolved without a TypeError
\* against a store whose existing_users is a non-empty list
IsLegacyCall ==
  /\ lastCall.called
  /\ Occurs(lastCall.args, LegacyMarker)
  /\ ~IsThrown(lastCall.resolved)
  /\ ctxHas(testContext, k_existingUsers)
  /\ IsArr(testContext[k_existingUsers])
  /\ Len(testContext[k_existingUsers].a) > 0

\* C24: whenever existing_users holds a non-empty list, every occurrence of
\* {{EXISTING_USER_ID}} in a call's argument tree is replaced before
\* dispatch.
C24_LegacyMarkerReplaced == IsLegacyCall => ~Occurs(lastCall.resolved, LegacyMarker)

\* the same for the calls that carry a truthy _dynamicAuthorId
C24_FlaggedLegacyMarkerReplaced ==
  (IsLegacyCall /\ Truthy(Get(lastCall.args, k_dynamicAuthorId))) =>
     ~Occurs(lastCall.resolved, LegacyMarker)

\* some string of the value tree v holds the text more than once
RECURSIVE OccursTwice(_, _)
OccursTwice(v, text) ==
  CASE v.t = "str" -> \E i, j \in 1..Len(v.s) :
                        i # j /\ startsWithAt(v.s, text, i) /\ startsWithAt(v.s, text, j)
    [] v.t = "arr" -> \E i \in DOMAIN v.a : OccursTwice(v.a[i], text)
    [] v.t = "obj" -> \E i \in DOMAIN v.o : OccursTwice(v.o[i].v, text)
    [] OTHER -> FALSE

\* with the flag, a marker that no string holds twice is replaced wherever
\* it is
C24_FlaggedSingleMarkerReplaced ==
  (/\ IsLegacyCall
   /\ Truthy(Get(lastCall.args, k_dynamicAuthorId))
   /\ ~OccursTwice(lastCall.args, LegacyMarker)) =>
     ~Occurs(lastCall.resolved, LegacyMarker)

(***************************************************************************)
(* SequelSpec: run_workflow called again once the call before it has       *)
(* returned, on the same server and context store, the run going on after  *)
(* a failed step                                                           *)
(***************************************************************************)
\* the calls before run r have returned
EarlierReturned(r) == \A q \in RaceRuns : q < r => runs[q].status = "finished"

SequelNext ==
  \/ RaceInitialize
  \/ Started /\ endpointTools = EmptyMap /\ ListTools
  \/ \E r \in RaceRuns, stopOnError \in {JBool(FALSE), Undefined} :
       /\ Started
       /\ endpointTools # EmptyMap
       /\ EarlierReturned(r)
       /\ CallRunWorkflow(r, WorkflowName(s_posts), stopOnError)
  \/ \E r \in RaceRuns : StepStart(r)
  \/ \E r \in RaceRuns :
       /\ runs[r].status = "awaiting"
       /\ \E data \in RacePayloads(r, runs[r].log[Len(runs[r].log)].request) : StepReturn(r, data)
  \/ \E r \in RaceRuns : StepThrow(r)

SequelSpec == RaceInit /\ [][SequelNext]_vars

(***************************************************************************)
(* C26                                                                     *)
(***************************************************************************)
\* entry c of the run's log is its create step, and the step failed
CreateFailedAt(run, c) ==
  /\ HasPrefix(StepsOf(run)[run.log[c].step].action, <<"c","r","e","a","t","e","_">>)
  /\ run.log[c].outcome = "failed"

\* entry k of the run's log is a request sent for the item with the id
SentFor(run, k, id) ==
  /\ run.log[k].request.sent
  /\ pathHasParam(run.log[k].request.path)
  /\ run.log[k].request.id = id

\* C26: across consecutive runs of the same workflow on one context store,
\* if a run's create step fails and the run goes on, none of its get, update
\* or delete steps is dispatched with the id of a resource an earlier run
\* created.
C26_NoIdOfEarlierRun ==
  \A r \in RaceRuns, q \in RaceRuns :
    q < r =>
      \A c \in DOMAIN runs[r].log, k \in DOMAIN runs[r].log :
        (c < k /\ CreateFailedAt(runs[r], c)) =>
          ~SentFor(runs[r], k, Get(CreatedBy(q), k_id))

\* in the first run on a server, after a failed create no get, update or
\* delete is sent at all
C26_FirstRunSendsNoItemRequest ==
  \A c \in DOMAIN runs[1].log, k \in DOMAIN runs[1].log :
    (c < k /\ CreateFailedAt(runs[1], c)) =>
      ~(runs[1].log[k].request.sent /\ pathHasParam(runs[1].log[k].request.path))

(***************************************************************************)
(* CycleSpec: resolveSchemaReference as the calls it makes, one call frame *)
(* at a time, on documents whose schemas may refer back to themselves      *)
(***************************************************************************)
n_Category == <<"C","a","t","e","g","o","r","y">>

n_Loop == <<"L","o","o","p">>

n_Order == <<"O","r","d","e","r">>

n_Item == <<"I","t","e","m">>

\* components.schemas with cycles: Category has a parent that is a Category,
\* Loop is a pointer to itself, an Order lists Items and an Item has an Order
CyclicTable ==
  JObj(<< Entry(n_Category, SObject(<< Entry(<<"n","a","m","e">>, SString("")),
                                       Entry(<<"p","a","r","e","n","t">>, SRef(n_Category)) >>, <<>>)),
          Entry(n_Loop, SRef(n_Loop)),
          Entry(n_Order, SObject(<< Entry(<<"i","t","e","m","s">>, SArray(SRef(n_Item))) >>, <<>>)),
          Entry(n_Item, SObject(<< Entry(<<"o","r","d","e","r">>, SRef(n_Order)) >>, <<>>)),
          Entry(n_User, SObject(<< Entry(<<"n","a","m","e">>, SString("")) >>, <<>>)) >>)

CyclicDocument == [hasPaths |-> TRUE, paths |-> <<>>, schemas |-> CyclicTable]

CycleDocuments == RefDocuments \cup {CyclicDocument}

\* the schemas resolution is called on: a pointer to each name, and an object
\* holding one
CycleNodes ==
  { SRef(n) : n \in {n_User, n_Post, n_Alias, n_Loose, n_Gone, n_Category, n_Loop, n_Order, n_Item} }
  \cup { SObject(<< Entry(<<"x">>, SRef(n)) >>, <<>>) : n \in {n_Post, n_Category, n_Gone} }
  \cup { JNull }

\* the frames the engine allows before 'Maximum call stack size exceeded'
StackLimit == 8

\* lines 58-89: the schemas one call of resolveSchemaReference calls itself
\* on, in order: the target of a pointer that resolves, the properties of an
\* object, the items of an array
Callees(doc, schemaOrRef) ==
  IF ~Truthy(schemaOrRef) THEN <<>>
  ELSE IF schemaOrRef.t = "schema" /\ schemaOrRef.ref # Undefined
  THEN IF HasKey(doc.schemas, schemaOrRef.ref.s)
       THEN << Get(doc.schemas, schemaOrRef.ref.s) >>
       ELSE <<>>
  ELSE IF schemaOrRef.type = "object" /\ Truthy(schemaOrRef.properties)
  THEN [i \in DOMAIN schemaOrRef.properties.o |-> schemaOrRef.properties.o[i].v]
  ELSE IF schemaOrRef.type = "array" /\ Truthy(schemaOrRef.items)
  THEN << schemaOrRef.items >>
  ELSE <<>>

Frame(node) == [node |-> node, returned |-> 0]

\* resolveSchemaReference(node) is called: its frame is the whole stack
ResolveCall(node) ==
  /\ lastCall = NoCall
  /\ lastCall' = [called |-> TRUE, schema |-> node, status |-> "resolving",
                  frames |-> << Frame(node) >>]
  /\ UNCHANGED <<endpointTools, testContext, runs, inFlight>>
  /\ UNCHANGED parserVars

\* the stack after the top frame's next move: it calls itself on its next
\* callee, or returns to its caller
Moved(doc, frames) ==
  LET top == frames[Len(frames)]
  IN IF top.returned < Len(Callees(doc, top.node))
     THEN Append([frames EXCEPT ![Len(frames)].returned = top.returned + 1],
                 Frame(Callees(doc, top.node)[top.returned + 1]))
     ELSE SubSeq(frames, 1, Len(frames) - 1)

\* one move of the call in progress; a call beyond the stack limit raises a
\* RangeError, the last return ends the resolution
ResolveStep ==
  /\ lastCall.called
  /\ lastCall.status = "resolving"
  /\ lastCall' =
       IF Len(Moved(spec, lastCall.frames)) > StackLimit
       THEN [lastCall EXCEPT !.status = "overflow"]
       ELSE IF Moved(spec, lastCall.frames) = <<>>
       THEN [lastCall EXCEPT !.status = "returned", !.frames = <<>>]
       ELSE [lastCall EXCEPT !.frames = Moved(spec, lastCall.frames)]
  /\ UNCHANGED <<endpointTools, testContext, runs, inFlight>>
  /\ UNCHANGED parserVars

CycleInit ==
  /\ spec \in CycleDocuments
  /\ endpoints = EmptyMap
  /\ endpointOrder = <<>>
  /\ workflows = EmptyMap
  /\ parseOutcome = "returned"
  /\ ServerInit

CycleNext ==
  \/ \E node \in CycleNodes : ResolveCall(node)
  \/ ResolveStep

CycleSpec == CycleInit /\ [][CycleNext]_vars

\* a call in progress always makes its next move
CycleFairSpec == CycleSpec /\ WF_vars(ResolveStep)

(***************************************************************************)
(* C27                                                                     *)
(***************************************************************************)
RECURSIVE RefersBack(_, _, _)
\* resolution of the node, through schemas already entered, calls itself on
\* a schema it is still resolving
RefersBack(doc, node, entered) ==
  \/ node \in entered
  \/ \E i \in DOMAIN Callees(doc, node) :
       RefersBack(doc, Callees(doc, node)[i], entered \cup {node})

\* C27: schema resolution terminates on every document, one whose schemas
\* refer back to themselves through $ref included: no call ends in a stack
\* overflow.
C27_ResolutionTerminates == lastCall.called => lastCall.status # "overflow"

\* the same as termination: every call returns
C27_ResolutionReturns ==
  (lastCall.called /\ lastCall.status = "resolving") ~> (lastCall.called /\ lastCall.status = "returned")

\* on a schema that does not refer back to itself no call overflows
C27_AcyclicNeverOverflows ==
  (lastCall.called /\ ~RefersBack(spec, lastCall.schema, {})) => lastCall.status # "overflow"

\* and every call on such a schema returns
C27_AcyclicReturns ==
  (lastCall.called /\ lastCall.status = "resolving" /\ ~RefersBack(spec, lastCall.schema, {}))
    ~> (lastCall.called /\ lastCall.status = "returned")

\* a schema that refers back to itself always overflows
C27_CyclicOverflows ==
  (lastCall.called /\ RefersBack(spec, lastCall.schema, {})) ~> (lastCall.called /\ lastCall.status = "overflow")



(***************************************************************************)
(* C28                                                                     *)
(***************************************************************************)
\* the operation the registry holds for verb v of the template at position i
RegisteredOperation(i, v) ==
  endpoints[extractEndpointName(spec.paths[i].template)]
    .operations[OperationKey(v, spec.paths[i].template)]

\* the pairs of the document: a position and a verb its path item defines
DocumentPairs == { <<i, v>> \in (DOMAIN spec.paths) \X Verbs : v \in DOMAIN spec.paths[i].item }

\* two pairs that map to the same endpoint name and operation key
SameSlot(p, q) ==
  /\ extractEndpointName(spec.paths[p[1]].template) = extractEndpointName(spec.paths[q[1]].template)
  /\ OperationKey(p[2], spec.paths[p[1]].template) = OperationKey(q[2], spec.paths[q[1]].template)

\* C28: model building loses no operation: for every (path template, verb)
\* pair of the document the endpoint it maps to holds an operation whose
\* recorded path is that template, and every GET_COLLECTION operation's path
\* has no parameter segment.
C28_NoOperationLost ==
  parseOutcome = "returned" =>
    /\ \A p \in DocumentPairs :
         /\ extractEndpointName(spec.paths[p[1]].template) \in DOMAIN endpoints
         /\ OperationKey(p[2], spec.paths[p[1]].template)
              \in DOMAIN endpoints[extractEndpointName(spec.paths[p[1]].template)].operations
         /\ RegisteredOperation(p[1], p[2]).path = spec.paths[p[1]].template
    /\ \A name \in DOMAIN endpoints :
         "GET_COLLECTION" \in DOMAIN endpoints[name].operations =>
           ~pathHasParam(endpoints[name].operations["GET_COLLECTION"].path)

\* every pair has an operation under its name and key, recorded with the
\* template of the last pair of the document that maps there
C28_LastTemplateRecorded ==
  parseOutcome = "returned" =>
    \A p \in DocumentPairs :
      /\ extractEndpointName(spec.paths[p[1]].template) \in DOMAIN endpoints
      /\ OperationKey(p[2], spec.paths[p[1]].template)
           \in DOMAIN endpoints[extractEndpointName(spec.paths[p[1]].template)].operations
      /\ \E q \in DocumentPairs :
           /\ SameSlot(p, q)
           /\ \A o \in DocumentPairs : SameSlot(p, o) => o[1] <= q[1]
           /\ RegisteredOperation(p[1], p[2]).path = spec.paths[q[1]].template

(***************************************************************************)
(* ReparseSpec: parseFromFile called any number of times on one parser     *)
(* instance                                                                *)
(***************************************************************************)
\* the files parsed: users alone, posts alone with and without PUT, both, a
\* document without paths, one with an empty paths table
ReparseDocuments ==
  { Document(UsersFull),
    Document(ResourcePaths(s_posts, {"get", "post"}, {"get", "delete"}, PostSchemaAuthor)),
    Document(ResourcePaths(s_posts, {"get", "post"}, {"get", "put", "delete"}, PostSchemaAuthor)),
    Document(ResourcePaths(s_posts, {"get"}, {"get"}, Undefined)),
    ScenarioDocument,
    Document(<<>>),
    NoDocument }

\* one more parseFromFile on the instance; the documents parsed are recorded
Reparse(doc) ==
  /\ ParseDocument(doc)
  /\ lastCall' = [called |-> TRUE,
                  earlier |-> IF lastCall.called THEN lastCall.earlier \cup {spec} ELSE {}]
  /\ UNCHANGED <<endpointTools, testContext, runs, inFlight>>

ReparseNext == \E doc \in ReparseDocuments : Reparse(doc)

ReparseSpec == Init /\ [][ReparseNext]_vars

(***************************************************************************)
(* C29                                                                     *)
(***************************************************************************)
\* what a new parser instance registers for the document
FreshEndpoints(doc) == generateEndpoints(doc, EmptyMap)

\* the workflows a new parser instance generates for the document
FreshWorkflows(doc) ==
  generateWorkflows(doc, FreshEndpoints(doc), EndpointOrder(<<>>, doc.paths), EmptyMap).workflows

\* the last call returned what a new instance returns for its file
AsFresh ==
  /\ endpoints = FreshEndpoints(spec)
  /\ workflows = FreshWorkflows(spec)

\* C29: the result of parseFromFile depends only on the file parsed in the
\* call: after any earlier calls on the instance, returned or thrown, the
\* endpoints and workflows returned equal those of a new instance.
C29_ResultOfFileOnly ==
  (lastCall.called /\ parseOutcome = "returned") => AsFresh

\* after earlier calls that all threw, or that parsed the same document, the
\* result is that of a new instance
C29_AsFreshAfterSameOrFailed ==
  (/\ lastCall.called
   /\ parseOutcome = "returned"
   /\ lastCall.earlier \subseteq {spec, NoDocument}) => AsFresh

(***************************************************************************)
(* C30                                                                     *)
(***************************************************************************)
\* the markers in the args of a step, the flag's own entries left out
StepMarkers(step) ==
  IF Truthy(step.args) THEN StringifyMatches(Delete(step.args, k_dynamicForeignKeys)) ELSE <<>>

\* every marker in the step's args has an entry in its _dynamicForeignKeys
MarkersListed(step) ==
  \A i \in DOMAIN StepMarkers(step) :
    /\ IsArr(Get(step.args, k_dynamicForeignKeys))
    /\ \E e \in DOMAIN Get(step.args, k_dynamicForeignKeys).a :
         Get(Get(step.args, k_dynamicForeignKeys).a[e], k_marker) = JStr(StepMarkers(step)[i])

\* C30: every dynamic marker that synthesis places in a workflow step's args
\* is listed in that same step's _dynamicForeignKeys, the update step
\* included.
C30_MarkersListed ==
  \A w \in DOMAIN workflows :
    \A i \in DOMAIN workflows[w].steps : MarkersListed(workflows[w].steps[i])

\* every marker of a step other than the update step is listed
C30_MarkersListedButUpdate ==
  \A w \in DOMAIN workflows :
    \A i \in DOMAIN workflows[w].steps :
      ~HasPrefix(workflows[w].steps[i].action, <<"u","p","d","a","t","e","_">>) => MarkersListed(workflows[w].steps[i])

====
